---- MODULE Spec2Model ----
(***************************************************************************)
(* Verification model of the moq data model (Frame, Track), the Origin     *)
(* announcement registry and the Session handshake.                        *)
(*                                                                         *)
(* Every subsystem has its own specification over the shared variable      *)
(* tuple `vars`; a subsystem's Init parks the other subsystems' variables  *)
(* at their construction values and its Next leaves them unchanged.        *)
(***************************************************************************)
EXTENDS Integers, Sequences, FiniteSets, Bags, TLC

VARIABLES
    \* ---- Frame (rs/moq/src/model/frame.rs) ----
    fsize,      \* Frame.size
    fchunks,    \* FrameState.chunks, each chunk represented by its length
    fclosed,    \* FrameState.closed: "None", "Ok" or the name of the error
    fwritten,   \* one entry per FrameProducer handle: its `written` field
    flast,      \* the last call made on a FrameProducer handle and its result
    fcons,      \* the FrameConsumers: `index`, and what each was handed so far
    frlast,     \* the last call made on a FrameConsumer and its result
    \* ---- Group (rs/moq/src/model/group.rs) ----
    grframes,   \* GroupState.frames: the state of each appended frame
    grclosed,   \* GroupState.closed: "None", "Ok" or the name of the error
    grhandles,  \* number of GroupProducer handles (clones)
    grwf,       \* the write_frame call under way: its frame and its position
    grlast,     \* the last call made on a GroupProducer or a child FrameProducer
    grcons,     \* the GroupConsumers: `index`, `active`, and what each was handed
    grrlast,    \* the last call made on a GroupConsumer or a child FrameConsumer
    \* ---- Track (rs/moq/src/model/track.rs) ----
    texpires,   \* Track.expires
    now,        \* tokio::time::Instant::now()
    tgroups,    \* TrackState.groups: (group, arrival instant) in arrival order
    tnext,      \* TrackState.next
    tclosed,    \* TrackState.closed: "None", "Ok" or the name of the error
    gclosed,    \* per group: GroupState.closed ("Absent" before it is produced)
    ginfo,      \* per group: Group.sequence and the observations made about it
    etask,      \* per group: the position of its TrackProducer::expire task
    tfault,     \* TRUE once an assert! of the track has failed; the panic ends the run
    tlast,      \* the create_group / insert_group call that just returned, and its result
    \* ---- TrackProducer handles and the TrackConsumer of Track::produce ----
    tlimit,     \* cap on the number of groups produced in this run
    thandles,   \* number of TrackProducer handles the application holds
    cseen,      \* TrackConsumer.seen
    creturned,  \* the sequence numbers next_group has returned, in order
    clast,      \* the next_group / closed call that just returned, and its result
    kstart,     \* clone of the TrackConsumer: groups produced before it was made (-1: no clone)
    kinherit,   \* clone of the TrackConsumer: `seen` as it was copied
    kseen,      \* clone of the TrackConsumer: its `seen`
    kreturned,  \* clone of the TrackConsumer: what next_group has returned to it
    knone,      \* clone of the TrackConsumer: next_group has returned None to it
    \* ---- Origin (rs/moq/src/model/origin.rs) ----
    onodes,     \* the OriginNodes of the tree, each named by its position from the root
    obcast,     \* per node: OriginNode.broadcast (active = 0 when None)
    oconsumers, \* per node: the ids in OriginNode.consumers
    bclosed,    \* per broadcast: TRUE once BroadcastConsumer::closed() resolves
    otasks,     \* the tasks spawned by publish_broadcast that have not removed yet
    oprod,      \* the OriginProducer handles: roots, prefix, and the prefixes allowed
    ocons,      \* the OriginConsumers: roots, the prefixes asked for, the events sent
    opublished, \* number of publish_broadcast calls so far
    ohist,      \* the publish_broadcast calls that returned true, in order: [path, b]
    odropped,   \* the OriginProducer handles that were dropped
    oread,      \* per consumer, the number of events announced() has returned
    olast,      \* the OriginProducer / remove call that just returned, and its result
    \* ---- Session::accept (rs/moq/src/session.rs) ----
    akind,      \* the ControlType the client wrote first on the session stream
    aversions,  \* ClientSetup.versions, in the client's order of preference
    apc,        \* where the accepting task is: "accept", "accept_lite", "accept_ietf", "done"
    awritten,   \* what the server has written on the session stream, in order
    astarted,   \* the arguments of the lite::start / ietf::start call, if one was made
    aresult,    \* what Session::accept returned ("pending" until it returns)
    \* ---- Two sessions: Publisher (A) and Subscriber (B) ----
    \* A publishes one group into the track of the Track section above.
    aframes,    \* A: the frames written into the group so far
    ppc,        \* A: Publisher::recv_subscribe: "accept", "serving", "done"
    pseen,      \* A: the TrackConsumer of serve_subscribe has returned the group
    sgtask,     \* A: the serve_group task: its position and GroupConsumer.index
    csub,       \* subscribe stream, B to A: the Subscribe message
    cbend,      \* subscribe stream, B to A: how B's send side ended
    cinfo,      \* subscribe stream, A to B: the Info / SubscribeOk message
    cdrop,      \* subscribe stream, A to B: a GroupDrop message
    caend,      \* subscribe stream, A to B: how A's send side ended
    dq,         \* group stream, A to B: what A wrote and B has not read yet
    dend,       \* group stream: "none" before it is opened, how A's side ended
    spc,        \* B: Subscriber::run_subscribe: "idle", "wait_ok", "wait_fin", "done"
    subs,       \* B: Subscriber.subscribes holds the subscription
    btgroups,   \* B: TrackState.groups of the subscribed track (sequence numbers)
    btclosed,   \* B: TrackState.closed of the subscribed track
    bframes,    \* B: GroupState.frames of the received group
    bgclosed,   \* B: GroupState.closed of the received group ("Absent" before it exists)
    betask,     \* B: the expire task of the received group: "none", "wait", "done"
    rgpc,       \* B: Subscriber::recv_group: "accept", "frames", "done"
    bpc,        \* B's reader: "idle", "next_group", "read", "end"
    bgseen,     \* B's reader: TrackConsumer.seen holds the group
    bindex,     \* B's reader: GroupConsumer.index
    bseen,      \* B's reader: what its calls have returned so far
    bcancelled, \* B's reader dropped its TrackConsumer
    \* ---- Subscriber::run_broadcast and the request() calls it serves ----
    rq,         \* the callers, the broadcast's requests and the run_subscribe tasks
    \* ---- Publisher::serve_subscribe with several groups ----
    sv,         \* the subscription, its serve_group tasks and their streams
    \* ---- Subscriber::run_uni and the data streams it accepts ----
    ru,         \* the subscriptions, the accepted streams and the groups created
    \* ---- Session::connect against Session::accept ----
    hs,         \* the client's offer, the server's reply and what each side started
    \* ---- the size-prefixed messages and the error codes on the wire ----
    wire,       \* the last message or error put on the wire and what was read back
    \* ---- ietf::Control and its request ids ----
    ctl         \* the request id counter, its limit and the waiting callers

frameVars == <<fsize, fchunks, fclosed, fwritten, flast>>
frameReadVars == <<fcons, frlast>>
groupVars == <<grframes, grclosed, grhandles, grwf, grlast, grcons, grrlast>>
trackVars == <<texpires, now, tgroups, tnext, tclosed, gclosed, ginfo, etask, tfault, tlast>>
readerVars == <<tlimit, thandles, cseen, creturned, clast>>
cloneVars == <<kstart, kinherit, kseen, kreturned, knone>>

originVars == <<onodes, obcast, oconsumers, bclosed, otasks, oprod, ocons, opublished, ohist,
                odropped, oread, olast>>

acceptVars == <<akind, aversions, apc, awritten, astarted, aresult>>

e2eVars == <<aframes, ppc, pseen, sgtask, csub, cbend, cinfo, cdrop, caend, dq, dend,
             spc, subs, btgroups, btclosed, bframes, bgclosed, betask, rgpc,
             bpc, bgseen, bindex, bseen, bcancelled>>

protoVars == <<ru, hs, wire, ctl>>
sessionVars == <<rq, sv, protoVars>>

vars == <<frameVars, frameReadVars, groupVars, trackVars, readerVars, cloneVars, originVars, acceptVars,
          e2eVars, sessionVars>>

\* What the actions of one subsystem leave alone.
exceptFrame  == <<frameReadVars, cloneVars, groupVars, trackVars, readerVars, originVars, acceptVars, e2eVars,
                   sessionVars>>
exceptFrameRead == <<frameVars, cloneVars, groupVars, trackVars, readerVars, originVars, acceptVars, e2eVars,
                   sessionVars>>
exceptTrack  == <<frameVars, cloneVars, groupVars, frameReadVars, readerVars, originVars, acceptVars, e2eVars,
                   sessionVars>>
exceptOrigin == <<frameVars, cloneVars, groupVars, frameReadVars, trackVars, readerVars, acceptVars, e2eVars,
                   sessionVars>>
exceptAccept == <<frameVars, cloneVars, groupVars, frameReadVars, trackVars, readerVars, originVars, e2eVars,
                   sessionVars>>
exceptReader == <<frameVars, cloneVars, groupVars, frameReadVars, trackVars, originVars, acceptVars, e2eVars,
                   sessionVars>>
exceptGroup  == <<frameVars, cloneVars, frameReadVars, trackVars, readerVars, originVars, acceptVars, e2eVars,
                   sessionVars>>
exceptClone  == <<frameVars, frameReadVars, groupVars, trackVars, readerVars, originVars, acceptVars, e2eVars,
                   sessionVars>>
exceptE2E    == <<frameVars, cloneVars, groupVars, frameReadVars, readerVars, originVars, acceptVars,
                   sessionVars>>
exceptSession == <<frameVars, frameReadVars, groupVars, trackVars, readerVars, cloneVars, originVars,
                   acceptVars, e2eVars, protoVars>>
exceptProto  == <<frameVars, frameReadVars, groupVars, trackVars, readerVars, cloneVars, originVars,
                   acceptVars, e2eVars, rq, sv>>

----------------------------------------------------------------------------
\* Bounds of the Frame model.
MaxFrameSize == 3      \* largest declared Frame.size
MaxChunkLen  == 3      \* largest chunk handed to write_chunk
MaxChunks    == 4      \* cap on the number of chunks stored in one frame
MaxHandles   == 2      \* cap on the number of FrameProducer handles (clones)

\* The consumers a frame can have: the one of Frame::produce and one more.
FrameConsumerIds == {1, 2}

\* Group
MaxGroupFrames    == 2   \* cap on the number of frames appended to the group
MaxGroupFrameSize == 1   \* largest Frame.size of a frame of the group
MaxGroupHandles   == 2   \* cap on the number of GroupProducer handles (clones)
GroupConsumerIds == {1, 2}

\* Bounds of the Track model.
MaxGroups  == 2        \* cap on the number of groups produced for one track
MaxSeq     == 1        \* largest sequence number handed to create/insert_group
MaxTime    == 3        \* the clock stops advancing here
MaxExpires == 2        \* largest Track.expires

\* Bounds of the TrackConsumer model.
MaxTrackHandles == 2   \* cap on the number of TrackProducer handles (clones)
ReuseGroups     == 7   \* cap on the groups produced when sequence numbers are reused

\* The slots for groups: enough for every run.
GroupSlots == IF ReuseGroups > MaxGroups THEN ReuseGroups ELSE MaxGroups

\* Bounds of the Origin model.
MaxDepth      == 1     \* longest path, in segments
MaxBroadcasts == 2     \* number of broadcasts
MaxPublishes  == 2     \* cap on the number of publish_broadcast calls
MaxProducers  == 2     \* cap on the number of OriginProducer handles
MaxConsumers  == 2     \* cap on the number of OriginConsumers
MaxPrefixes   == 1     \* longest prefix list handed to publish_only / consume_only

\* Bounds of the Session::accept model.
MaxVersions == 2       \* longest ClientSetup.versions

\* A group slot nobody produced yet. firstNewer / expiredAt are -1 when unset.
NoGroup == [seq |-> 0, newerEver |-> FALSE, firstNewer |-> -1, expiredAt |-> -1]
\* No create_group / insert_group call has just returned.
NoCall == [op |-> "none", res |-> "Ok", dup |-> FALSE, late |-> FALSE]
\* An expire task that was not spawned yet.
IdleTask == [pc |-> "idle", expires |-> 0, deadline |-> 0]
\* An expire task that returned.
DoneTask == [pc |-> "done", expires |-> 0, deadline |-> 0]

RECURSIVE SumSeq(_)
SumSeq(s) == IF s = <<>> THEN 0 ELSE Head(s) + SumSeq(Tail(s))

\* Bytes stored in the frame so far.
FrameTotal == SumSeq(fchunks)

\* A FrameConsumer made by FrameProducer::consume: nothing read yet.
NewFrameConsumer == [index |-> 0, from |-> 0, got |-> <<>>, done |-> FALSE]
\* No call on a FrameConsumer has returned yet.
NoFrameRead == [op |-> "none", c |-> 0, res |-> "none"]

\* A GroupConsumer made by GroupProducer::consume: nothing returned yet.
NewGroupConsumer ==
    [index |-> 0, from |-> 0, active |-> 0, got |-> <<>>, none |-> FALSE,
     resumed |-> FALSE]
\* No call on the group has returned yet.
NoGroupCall == [op |-> "none", h |-> 0, frame |-> 0, res |-> "none"]
\* No call on a GroupConsumer has returned yet.
NoGroupRead == [op |-> "none", c |-> 0, frame |-> 0, res |-> "none"]
\* No write_frame call is under way.
NoWriteFrame == [frame |-> 0, pc |-> "idle", h |-> 0]

\* Group::produce / GroupProducer::new, before any call: the producer and
\* the consumer of the pair.
GroupNew ==
    /\ grframes = <<>>
    /\ grclosed = "None"
    /\ grhandles = 1
    /\ grwf = NoWriteFrame
    /\ grlast = NoGroupCall
    /\ grcons = <<NewGroupConsumer>>
    /\ grrlast = NoGroupRead

\* Frame::produce / FrameProducer::new, before any call: the producer and
\* the consumer of the pair.
FrameNew ==
    /\ fchunks = <<>>
    /\ fclosed = "None"
    /\ fwritten = <<0>>
    /\ flast = [op |-> "new", handle |-> 1, len |-> 0, before |-> 0, res |-> "Ok"]
    /\ fcons = <<NewFrameConsumer>>
    /\ frlast = NoFrameRead

\* No next_group / closed call has just returned.
NoRead == [op |-> "none", res |-> "none", seq |-> 0]

\* Track::produce / TrackProducer::new, before any call: one producer handle
\* and the consumer made by Track::produce, which has seen nothing.
TrackNew ==
    /\ thandles = 1
    /\ cseen = {}
    /\ creturned = <<>>
    /\ clast = NoRead
    /\ kstart = -1
    /\ kinherit = {}
    /\ kseen = {}
    /\ kreturned = <<>>
    /\ knone = FALSE
    /\ now = 0
    /\ tgroups = <<>>
    /\ tnext = 0
    /\ tclosed = "None"
    /\ gclosed = [i \in 1..GroupSlots |-> "Absent"]
    /\ ginfo = [i \in 1..GroupSlots |-> NoGroup]
    /\ etask = [i \in 1..GroupSlots |-> IdleTask]
    /\ tfault = FALSE
    /\ tlast = NoCall

\* The track of a specification that is about something else.
TrackParked == texpires = 0 /\ tlimit = MaxGroups /\ TrackNew

\* Path segments, paths (a path is the sequence of its segments) and prefix lists.
Segs == {"a", "b"}
Paths == UNION {[1..k -> Segs] : k \in 0..MaxDepth}
PrefixLists == UNION {[1..k -> Paths] : k \in 1..MaxPrefixes}
Bcasts == 1..MaxBroadcasts

\* OriginNode::default(): no broadcast.
NoBroadcast == [active |-> 0, backup |-> <<>>, path |-> <<>>]
\* No origin call has just returned.
NoOriginCall == [op |-> "none", res |-> "none", inside |-> TRUE, changed |-> FALSE,
                 final |-> FALSE, told |-> TRUE]
\* OriginRoots::default(): the single root "" over the root node.
DefaultRoots == <<[root |-> <<>>, node |-> <<>>]>>

\* Origin::produce(): a producer over the default roots and its consumer.
OriginNew ==
    /\ onodes = {<<>>}
    /\ obcast = [p \in Paths |-> NoBroadcast]
    /\ oconsumers = [p \in Paths |-> IF p = <<>> THEN {1} ELSE {}]
    /\ bclosed = [b \in Bcasts |-> FALSE]
    /\ otasks = EmptyBag
    /\ oprod = <<[roots |-> DefaultRoots, prefix |-> <<>>, allowed |-> {<<>>}]>>
    /\ ocons = <<[roots |-> DefaultRoots, asked |-> {<<>>}, scope |-> {<<>>},
                  narrowed |-> FALSE, events |-> <<>>]>>
    /\ opublished = 0
    /\ ohist = <<>>
    /\ odropped = {}
    /\ oread = <<0>>
    /\ olast = NoOriginCall

\* No lite::start / ietf::start call was made.
NoSession == [family |-> "none", version |-> "none"]

\* Session::accept was called and has not read anything yet.
AcceptNew ==
    /\ apc = "accept"
    /\ awritten = <<>>
    /\ astarted = NoSession
    /\ aresult = "pending"

\* No client has connected.
AcceptParked ==
    /\ akind = "Session"
    /\ aversions = <<>>
    /\ AcceptNew

\* The serve_group task was not pushed yet.
NoServeGroup == [pc |-> "none", index |-> 0]

\* Bounds of the two session models below.
MaxRequests == 3       \* number of concurrent BroadcastConsumer::request callers
MaxServed   == 2       \* number of groups the served track receives

\* The broadcast was announced and run_broadcast was spawned; nobody has
\* asked for the track.
RequestNew ==
    [calls |-> [k \in 1..MaxRequests |-> "idle"],
     got |-> [k \in 1..MaxRequests |-> 0],
     pending |-> 0, tracks |-> <<>>, queue |-> <<>>, served |-> {}, asked |-> 0,
     pc |-> "loop", registered |-> TRUE, next_id |-> 0,
     tasks |-> <<>>, subscribes |-> {}, sent |-> <<>>, closed |-> FALSE]

\* serve_subscribe has written the Info and enters its loop; the track is empty.
ServeNew ==
    [pc |-> "serving", track |-> "None", arrived |-> 0, taken |-> 0,
     groups |-> [g \in 1..MaxServed |-> "Absent"],
     tasks |-> [g \in 1..MaxServed |-> "none"],
     streams |-> [g \in 1..MaxServed |-> "none"],
     drops |-> <<>>, writer |-> "open", peer |-> "open", session |-> "open"]

\* Bounds of the run_uni model: the subscriptions B makes and the data
\* streams A opens.
MaxSubscribes == 2
MaxUniStreams == 2

\* Subscriber::new: no subscription, next_id at zero; no stream accepted yet.
RunUniNew ==
    [next_id |-> 0, subscribes |-> {}, streams |-> <<>>, groups |-> <<>>,
     run_uni |-> "accept"]

\* Session::connect was not called and no stream has reached accept.
HandshakeNew ==
    [pc |-> "new", client |-> "none", peer |-> "none", offered |-> <<>>, reply |-> <<>>,
     first |-> -1, result |-> "pending",
     started |-> [family |-> "none", version |-> "none"]]
\* Nothing was encoded yet.
NoMessage == [kind |-> "none", id |-> 0, broadcast |-> 0, track |-> 0, priority |-> 0, expires |-> 0]
WireNew == [op |-> "none", msg |-> NoMessage, bytes |-> <<>>, declared |-> 0,
            res |-> "none", value |-> NoMessage, rest |-> <<>>,
            err |-> "none", app |-> <<0, 0>>, code |-> <<0, 0>>]
\* Bounds of the Control model: the tasks that call next_request_id and the
\* largest limit the peer grants.
MaxCallers == 2
MaxRequestIdMax == 4

\* Control::new was not called.
ControlNew ==
    [pc |-> "new", request_id_next |-> 0, request_id_max |-> 0, tx |-> "open",
     callers |-> [c \in 1..MaxCallers |-> [pc |-> "idle", woken |-> FALSE, blocked |-> FALSE]],
     last |-> [c |-> 0, res |-> "none", id |-> 0, max |-> 0, blocked |-> FALSE]]

\* Two connected sessions: A has published the track, B has not subscribed.
E2ENew ==
    /\ rq = RequestNew /\ sv = ServeNew
    /\ ru = RunUniNew /\ hs = HandshakeNew /\ wire = WireNew /\ ctl = ControlNew
    /\ aframes = <<>>
    /\ ppc = "accept" /\ pseen = FALSE /\ sgtask = NoServeGroup
    /\ csub = "none" /\ cbend = "open"
    /\ cinfo = "none" /\ cdrop = "none" /\ caend = "open"
    /\ dq = <<>> /\ dend = "none"
    /\ spc = "idle" /\ subs = FALSE
    /\ btgroups = <<>> /\ btclosed = "None"
    /\ bframes = <<>> /\ bgclosed = "Absent" /\ betask = "none"
    /\ rgpc = "accept"
    /\ bpc = "idle" /\ bgseen = FALSE /\ bindex = 0 /\ bseen = <<>>
    /\ bcancelled = FALSE

FrameInit ==
    /\ fsize \in 0..MaxFrameSize
    /\ FrameNew
    /\ GroupNew
    /\ TrackParked
    /\ OriginNew
    /\ AcceptParked
    /\ E2ENew

\* The Frame operations touch nothing but the frame.
OnlyFrame == UNCHANGED exceptFrame

\* FrameState::write_chunk: the result of the call on the shared state.
FrameStateWriteChunk ==
    IF fclosed = "None" THEN "Ok"
    ELSE IF fclosed = "Ok" THEN "Closed" ELSE fclosed

\* FrameState::close: the result of the call on the shared state.
FrameStateClose ==
    IF fclosed \notin {"None", "Ok"} THEN fclosed ELSE "Ok"

\* FrameProducer::write_chunk on handle h with a chunk of len bytes.
FrameWriteChunk(h, len) ==
    /\ h \in DOMAIN fwritten
    /\ Len(fchunks) < MaxChunks
    /\ LET res == IF fwritten[h] + len > fsize THEN "WrongSize"
                  ELSE FrameStateWriteChunk
       IN /\ flast' = [op |-> "write_chunk", handle |-> h, len |-> len,
                       before |-> FrameTotal, res |-> res]
          /\ IF res = "Ok"
             THEN /\ fchunks' = Append(fchunks, len)
                  /\ fwritten' = [fwritten EXCEPT ![h] = @ + len]
             ELSE UNCHANGED <<fchunks, fwritten>>
    /\ UNCHANGED <<fsize, fclosed>>
    /\ OnlyFrame

\* FrameProducer::close on handle h.
FrameClose(h) ==
    /\ h \in DOMAIN fwritten
    /\ LET res == IF fwritten[h] # fsize THEN "WrongSize" ELSE FrameStateClose
       IN /\ flast' = [op |-> "close", handle |-> h, len |-> 0,
                       before |-> FrameTotal, res |-> res]
          /\ fclosed' = IF res = "Ok" THEN "Ok" ELSE fclosed
    /\ UNCHANGED <<fsize, fchunks, fwritten>>
    /\ OnlyFrame

\* The errors handed to abort.
FrameErrors == {"Cancel", "Expired"}

\* FrameProducer::abort(err) on handle h.
FrameAbort(h, err) ==
    /\ h \in DOMAIN fwritten
    /\ fclosed' = err
    /\ flast' = [op |-> "abort", handle |-> h, len |-> 0,
                 before |-> FrameTotal, res |-> "Ok"]
    /\ UNCHANGED <<fsize, fchunks, fwritten>>
    /\ OnlyFrame

\* #[derive(Clone)] on FrameProducer: the clone shares `state` and copies `written`.
FrameClone(h) ==
    /\ h \in DOMAIN fwritten
    /\ Len(fwritten) < MaxHandles
    /\ fwritten' = Append(fwritten, fwritten[h])
    /\ flast' = [op |-> "clone", handle |-> h, len |-> 0,
                 before |-> FrameTotal, res |-> "Ok"]
    /\ UNCHANGED <<fsize, fchunks, fclosed>>
    /\ OnlyFrame

FrameNext ==
    \/ \E h \in 1..MaxHandles, len \in 0..MaxChunkLen : FrameWriteChunk(h, len)
    \/ \E h \in 1..MaxHandles : FrameClose(h)
    \/ \E h \in 1..MaxHandles, err \in FrameErrors : FrameAbort(h, err)
    \/ \E h \in 1..MaxHandles : FrameClone(h)

SpecFrame == FrameInit /\ [][FrameNext]_vars

\* C1: a write_chunk that would bring the bytes of the frame above its size
\* fails and appends nothing, and close() returns Ok only when the bytes
\* written to the frame sum to exactly its size, whichever handle is used.
FrameSizeContract ==
    /\ FrameTotal <= fsize
    /\ (flast.op = "write_chunk" /\ flast.before + flast.len > fsize)
          => (flast.res # "Ok" /\ FrameTotal = flast.before)
    /\ (flast.op = "close" /\ flast.res = "Ok") => FrameTotal = fsize

----------------------------------------------------------------------------
\* FrameConsumer: the consumers of the frame above.

\* The bytes of the chunk at position i; chunks are told apart by their position.
ChunkBytes(i) == [k \in 1..fchunks[i] |-> i]

\* The chunks at positions from..to concatenated, as read_all copies them.
RECURSIVE Payload(_, _)
Payload(from, to) ==
    IF from > to THEN <<>> ELSE ChunkBytes(from) \o Payload(from + 1, to)

\* One turn of the loop of read_chunk: the abort error, the next chunk, the
\* end of the frame, or wait for a change.
ReadChunkResult(c) ==
    IF fclosed \in FrameErrors THEN fclosed
    ELSE IF fcons[c].index < Len(fchunks) THEN "Some"
    ELSE IF fclosed = "Ok" THEN "None"
    ELSE "Pending"

\* FrameConsumer::read_chunk on consumer c, from the moment it can return.
FrameReadChunk(c) ==
    /\ c \in DOMAIN fcons
    /\ LET res == ReadChunkResult(c)
       IN /\ res # "Pending"
          /\ frlast' = [op |-> "read_chunk", c |-> c, res |-> res]
          /\ fcons' = [fcons EXCEPT ![c] =
                IF res = "Some"
                THEN [@ EXCEPT !.index = @ + 1,
                               !.got = @ \o ChunkBytes(fcons[c].index + 1)]
                ELSE IF res = "None" THEN [@ EXCEPT !.done = TRUE]
                ELSE @]
    /\ UNCHANGED exceptFrameRead

\* FrameConsumer::read_all on consumer c, from the moment its wait_for resolves.
FrameReadAll(c) ==
    /\ c \in DOMAIN fcons
    /\ fclosed # "None"
    /\ IF fclosed \in FrameErrors
       THEN /\ frlast' = [op |-> "read_all", c |-> c, res |-> fclosed]
            /\ UNCHANGED fcons
       ELSE /\ frlast' = [op |-> "read_all", c |-> c, res |-> "Ok"]
            /\ fcons' = [fcons EXCEPT ![c] =
                  [@ EXCEPT !.index = Len(fchunks),
                            !.got = @ \o Payload(fcons[c].index + 1, Len(fchunks)),
                            !.done = TRUE]]
    /\ UNCHANGED exceptFrameRead

\* FrameConsumer::closed on consumer c, from the moment its wait_for resolves.
FrameConsumerClosed(c) ==
    /\ c \in DOMAIN fcons
    /\ fclosed # "None"
    /\ frlast' = [op |-> "closed", c |-> c, res |-> fclosed]
    /\ UNCHANGED fcons
    /\ UNCHANGED exceptFrameRead

\* FrameProducer::consume: a consumer that starts at the first chunk.
FrameConsume ==
    /\ (Len(fcons) + 1) \in FrameConsumerIds
    /\ fcons' = Append(fcons, NewFrameConsumer)
    /\ frlast' = [op |-> "consume", c |-> Len(fcons) + 1, res |-> "Ok"]
    /\ UNCHANGED exceptFrameRead

\* #[derive(Clone)] on FrameConsumer: the clone inherits `index`.
FrameConsumerClone(c) ==
    /\ c \in DOMAIN fcons
    /\ (Len(fcons) + 1) \in FrameConsumerIds
    /\ fcons' = Append(fcons, [index |-> fcons[c].index, from |-> fcons[c].index,
                               got |-> <<>>, done |-> FALSE])
    /\ frlast' = [op |-> "clone", c |-> Len(fcons) + 1, res |-> "Ok"]
    /\ UNCHANGED exceptFrameRead

FrameReadNext ==
    \/ \E len \in 1..MaxChunkLen : FrameWriteChunk(1, len)
    \/ FrameClose(1)
    \/ \E err \in FrameErrors : FrameAbort(1, err)
    \/ \E c \in FrameConsumerIds : FrameReadChunk(c)
    \/ \E c \in FrameConsumerIds : FrameReadAll(c)
    \/ \E c \in FrameConsumerIds : FrameConsumerClosed(c)
    \/ FrameConsume
    \/ \E c \in FrameConsumerIds : FrameConsumerClone(c)

SpecFrameRead == FrameInit /\ [][FrameReadNext]_vars

\* C37: the outcome of a frame is write-once: once close() has returned Ok,
\* `closed` stays Ok (closed() on a consumer keeps reporting Ok) and the
\* chunks written before stay as they are, whatever the producer calls next.
ClosedStaysOk ==
    [][fclosed = "Ok" => (fclosed' = "Ok" /\ fchunks' = fchunks)]_vars

\* The same with the FrameProducer handle cloned.
FrameFanNext ==
    \/ \E h \in 1..MaxHandles, len \in 1..MaxChunkLen : FrameWriteChunk(h, len)
    \/ \E h \in 1..MaxHandles : FrameClose(h)
    \/ \E h \in 1..MaxHandles : FrameClone(h)
    \/ \E c \in FrameConsumerIds : FrameReadChunk(c)
    \/ \E c \in FrameConsumerIds : FrameReadAll(c)
    \/ \E c \in FrameConsumerIds : FrameConsumerClone(c)

SpecFrameFan == FrameInit /\ [][FrameFanNext]_vars

\* A call on a FrameConsumer returns in this step.
FrameReadReturns ==
    /\ frlast'.op \in {"read_chunk", "read_all", "closed"}
    /\ <<fcons, frlast>>' # <<fcons, frlast>>

\* C16: once the frame was aborted with an error no read_chunk, read_all or
\* closed call of any consumer is left pending, each of them fails with the
\* stored error and hands out nothing, unread chunks or not, no call on a
\* producer takes the frame out of the aborted state, and a consumer call
\* that follows one that failed with the abort error fails with that same
\* error.
AbortFailsReads ==
    /\ [](fclosed \in FrameErrors =>
            \A c \in DOMAIN fcons :
                /\ ENABLED FrameReadChunk(c)
                /\ ENABLED FrameReadAll(c)
                /\ ENABLED FrameConsumerClosed(c))
    /\ [][(fclosed \in FrameErrors) => (fclosed' \in FrameErrors)]_vars
    /\ [][(fclosed \in FrameErrors /\ FrameReadReturns)
             => (frlast'.res = fclosed' /\ fcons' = fcons)]_vars
    /\ [][(frlast.res \in FrameErrors /\ FrameReadReturns)
             => (frlast'.res = frlast.res)]_vars

\* C17: when the chunks written to the frame sum to exactly its size, close()
\* succeeds, and every consumer that has read the frame to its end has been
\* handed the chunks in write order, all of them.
WholePayload ==
    /\ (flast.op = "close" /\ flast.before = fsize /\ fclosed \notin FrameErrors)
          => flast.res = "Ok"
    /\ \A c \in DOMAIN fcons :
          fcons[c].done => fcons[c].got = Payload(1, Len(fchunks))

----------------------------------------------------------------------------
\* Group: the GroupProducer, its child frames and the GroupConsumers.

\* A frame as Frame::produce makes it. `written` is the field of the
\* FrameProducer its creator holds (the group keeps a clone, which it only
\* uses to abort the frame); `own` tells who holds that producer.
NewChildFrame(size, own) ==
    [size |-> size, written |-> 0, chunks |-> 0, closed |-> "None", own |-> own]

\* Mutant of GroupStateAppendFrame: only an aborted group refuses a frame.
GroupStateAppendFrameOpen ==
    IF grclosed \in FrameErrors THEN grclosed ELSE "Ok"

\* GroupState::append_frame: its result; on "Ok" the frame is pushed.
GroupStateAppendFrame ==
    IF grclosed = "None" THEN "Ok"
    ELSE IF grclosed = "Ok" THEN "Closed"
    ELSE grclosed

\* FrameProducer::write_chunk on a child frame f: its result.
ChildWriteResult(f, len) ==
    IF f.written + len > f.size THEN "WrongSize"
    ELSE IF f.closed = "None" THEN "Ok"
    ELSE IF f.closed = "Ok" THEN "Closed"
    ELSE f.closed

\* FrameProducer::close on a child frame f: its result.
ChildCloseResult(f) ==
    IF f.written # f.size THEN "WrongSize"
    ELSE IF f.closed \in FrameErrors THEN f.closed
    ELSE "Ok"

\* GroupProducer::append_frame on handle h, or create_frame when op says so,
\* with a frame of the given size that nothing was written to yet.
AppendFrame(h, op, size) ==
    /\ h \in 1..grhandles
    /\ LET res == GroupStateAppendFrame
       IN /\ res = "Ok" => Len(grframes) < MaxGroupFrames
          /\ grframes' = IF res = "Ok"
                         THEN Append(grframes, NewChildFrame(size, "caller"))
                         ELSE grframes
          /\ grlast' = [op |-> op, h |-> h, res |-> res,
                        frame |-> IF res = "Ok" THEN Len(grframes) + 1 ELSE 0]
    /\ UNCHANGED <<grclosed, grhandles, grwf, grcons, grrlast>>
    /\ UNCHANGED exceptGroup

\* GroupProducer::write_frame on handle h with a buffer of len bytes, up to
\* the return of its create_frame call.
WriteFrame(h, len) ==
    /\ h \in 1..grhandles
    /\ grwf.pc = "idle"
    /\ LET res == GroupStateAppendFrame
       IN /\ res = "Ok" => Len(grframes) < MaxGroupFrames
          /\ IF res = "Ok"
             THEN /\ grframes' = Append(grframes, NewChildFrame(len, "write_frame"))
                  /\ grwf' = [frame |-> Len(grframes) + 1, pc |-> "write", h |-> h]
                  /\ UNCHANGED grlast
             ELSE /\ grlast' = [op |-> "write_frame", h |-> h, res |-> res, frame |-> 0]
                  /\ UNCHANGED <<grframes, grwf>>
    /\ UNCHANGED <<grclosed, grhandles, grcons, grrlast>>
    /\ UNCHANGED exceptGroup

\* write_frame: its frame.write_chunk(data) call.
WriteFrameChunk ==
    /\ grwf.pc = "write"
    /\ LET i == grwf.frame
           f == grframes[i]
           res == ChildWriteResult(f, f.size)
       IN IF res = "Ok"
          THEN /\ grframes' = [grframes EXCEPT ![i].written = f.size,
                                               ![i].chunks = @ + 1]
               /\ grwf' = [grwf EXCEPT !.pc = "close"]
               /\ UNCHANGED grlast
          ELSE /\ grlast' = [op |-> "write_frame", h |-> grwf.h, res |-> res, frame |-> i]
               /\ grwf' = NoWriteFrame
               /\ UNCHANGED grframes
    /\ UNCHANGED <<grclosed, grhandles, grcons, grrlast>>
    /\ UNCHANGED exceptGroup

\* write_frame: its frame.close() call, and the return.
WriteFrameClose ==
    /\ grwf.pc = "close"
    /\ LET i == grwf.frame
           res == ChildCloseResult(grframes[i])
       IN /\ grframes' = IF res = "Ok" THEN [grframes EXCEPT ![i].closed = "Ok"]
                         ELSE grframes
          /\ grlast' = [op |-> "write_frame", h |-> grwf.h, res |-> res, frame |-> i]
    /\ grwf' = NoWriteFrame
    /\ UNCHANGED <<grclosed, grhandles, grcons, grrlast>>
    /\ UNCHANGED exceptGroup

\* FrameProducer::write_chunk on the producer create_frame returned for frame i.
ChildWriteChunk(i, len) ==
    /\ i \in DOMAIN grframes
    /\ grframes[i].own = "caller"
    /\ LET f == grframes[i]
           res == ChildWriteResult(f, len)
       IN /\ grframes' = IF res = "Ok"
                         THEN [grframes EXCEPT ![i].written = @ + len,
                                               ![i].chunks = @ + 1]
                         ELSE grframes
          /\ grlast' = [op |-> "frame.write_chunk", h |-> 0, res |-> res, frame |-> i]
    /\ UNCHANGED <<grclosed, grhandles, grwf, grcons, grrlast>>
    /\ UNCHANGED exceptGroup

\* FrameProducer::close on the producer of frame i.
ChildClose(i) ==
    /\ i \in DOMAIN grframes
    /\ grframes[i].own = "caller"
    /\ LET res == ChildCloseResult(grframes[i])
       IN /\ grframes' = IF res = "Ok" THEN [grframes EXCEPT ![i].closed = "Ok"]
                         ELSE grframes
          /\ grlast' = [op |-> "frame.close", h |-> 0, res |-> res, frame |-> i]
    /\ UNCHANGED <<grclosed, grhandles, grwf, grcons, grrlast>>
    /\ UNCHANGED exceptGroup

\* FrameProducer::abort(err) on the producer of frame i.
ChildAbort(i, err) ==
    /\ i \in DOMAIN grframes
    /\ grframes[i].own = "caller"
    /\ grframes' = [grframes EXCEPT ![i].closed = err]
    /\ grlast' = [op |-> "frame.abort", h |-> 0, res |-> "Ok", frame |-> i]
    /\ UNCHANGED <<grclosed, grhandles, grwf, grcons, grrlast>>
    /\ UNCHANGED exceptGroup

\* GroupProducer::close on handle h.
GroupProducerClose(h) ==
    /\ h \in 1..grhandles
    /\ IF grclosed \in FrameErrors
       THEN /\ grlast' = [op |-> "close", h |-> h, res |-> grclosed, frame |-> 0]
            /\ UNCHANGED grclosed
       ELSE /\ grlast' = [op |-> "close", h |-> h, res |-> "Ok", frame |-> 0]
            /\ grclosed' = "Ok"
    /\ UNCHANGED <<grframes, grhandles, grwf, grcons, grrlast>>
    /\ UNCHANGED exceptGroup

\* GroupProducer::abort(err) on handle h: GroupState::abort under the lock of
\* the group, so no frame is appended while it runs.
GroupProducerAbort(h, err) ==
    /\ h \in 1..grhandles
    /\ grframes' = [i \in DOMAIN grframes |-> [grframes[i] EXCEPT !.closed = err]]
    /\ grclosed' = err
    /\ grlast' = [op |-> "abort", h |-> h, res |-> "Ok", frame |-> 0]
    /\ UNCHANGED <<grhandles, grwf, grcons, grrlast>>
    /\ UNCHANGED exceptGroup

\* #[derive(Clone)] on GroupProducer: the clone shares the state.
GroupProducerClone ==
    /\ grhandles < MaxGroupHandles
    /\ grhandles' = grhandles + 1
    /\ grlast' = [op |-> "clone", h |-> grhandles + 1, res |-> "Ok", frame |-> 0]
    /\ UNCHANGED <<grframes, grclosed, grwf, grcons, grrlast>>
    /\ UNCHANGED exceptGroup

\* A read on a FrameConsumer of frame i that has read k chunks: read_chunk,
\* read_all or closed, from the moment it can return.
ChildReadResult(f, op, k) ==
    IF f.closed \in FrameErrors THEN f.closed
    ELSE IF op = "frame.read_chunk"
         THEN (IF k < f.chunks THEN "Some"
               ELSE IF f.closed = "Ok" THEN "None" ELSE "Pending")
    ELSE IF f.closed = "Ok" THEN "Ok" ELSE "Pending"

ChildReadOps == {"frame.read_chunk", "frame.read_all", "frame.closed"}

ChildRead(i, op, k) ==
    /\ i \in DOMAIN grframes
    /\ k \in 0..grframes[i].chunks
    /\ LET res == ChildReadResult(grframes[i], op, k)
       IN /\ res # "Pending"
          /\ grrlast' = [op |-> op, c |-> 0, frame |-> i, res |-> res]
    /\ UNCHANGED <<grframes, grclosed, grhandles, grwf, grlast, grcons>>
    /\ UNCHANGED exceptGroup

GroupInit ==
    /\ GroupNew
    /\ fsize = 0 /\ FrameNew
    /\ TrackParked
    /\ OriginNew
    /\ AcceptParked
    /\ E2ENew

\* One GroupProducer handle, the producers of its frames and their consumers.
GroupNext ==
    \/ \E size \in 0..MaxGroupFrameSize :
          \/ AppendFrame(1, "append_frame", size)
          \/ AppendFrame(1, "create_frame", size)
          \/ WriteFrame(1, size)
    \/ WriteFrameChunk
    \/ WriteFrameClose
    \/ \E i \in 1..MaxGroupFrames :
          \/ \E len \in 1..MaxGroupFrameSize : ChildWriteChunk(i, len)
          \/ ChildClose(i)
          \/ \E err \in FrameErrors : ChildAbort(i, err)
          \/ \E op \in ChildReadOps, k \in 0..MaxGroupFrameSize : ChildRead(i, op, k)
    \/ GroupProducerClose(1)
    \/ \E err \in FrameErrors : GroupProducerAbort(1, err)

SpecGroup == GroupInit /\ [][GroupNext]_vars

\* The calls on the GroupProducer alone.
GroupCloseNext ==
    \/ \E h \in 1..MaxGroupHandles, size \in 0..MaxGroupFrameSize :
          \/ AppendFrame(h, "append_frame", size)
          \/ AppendFrame(h, "create_frame", size)
          \/ WriteFrame(h, size)
    \/ WriteFrameChunk
    \/ WriteFrameClose
    \/ \E h \in 1..MaxGroupHandles : GroupProducerClose(h)
    \/ \E h \in 1..MaxGroupHandles, err \in FrameErrors : GroupProducerAbort(h, err)
    \/ GroupProducerClone

SpecGroupClose == GroupInit /\ [][GroupCloseNext]_vars

\* Mutant of NextFrameResult: the end of the group is looked at before the
\* frames.
NextFrameResultClosedFirst(c) ==
    IF grclosed = "Ok" THEN "None"
    ELSE IF grclosed \in FrameErrors THEN grclosed
    ELSE IF grcons[c].index < Len(grframes) THEN "Some"
    ELSE "Pending"

\* One turn of the loop of next_frame on consumer c: the frame at `index`,
\* the end of the group, its error, or wait for a change.
NextFrameResult(c) ==
    IF grcons[c].index < Len(grframes) THEN "Some"
    ELSE IF grclosed = "Ok" THEN "None"
    ELSE IF grclosed \in FrameErrors THEN grclosed
    ELSE "Pending"

\* GroupConsumer::next_frame on consumer c, from the moment it can return.
NextFrame(c) ==
    /\ c \in DOMAIN grcons
    /\ IF grcons[c].active # 0
       THEN /\ grcons' = [grcons EXCEPT ![c].active = 0,
                                        ![c].got = Append(@, grcons[c].active),
                                        ![c].resumed = TRUE]
            /\ grrlast' = [op |-> "next_frame", c |-> c,
                           frame |-> grcons[c].active, res |-> "Some"]
       ELSE LET res == NextFrameResult(c)
            IN /\ res # "Pending"
               /\ grcons' = [grcons EXCEPT ![c] =
                     IF res = "Some"
                     THEN [@ EXCEPT !.index = @ + 1,
                                    !.got = Append(@, grcons[c].index + 1)]
                     ELSE IF res = "None" THEN [@ EXCEPT !.none = TRUE]
                     ELSE @]
               /\ grrlast' = [op |-> "next_frame", c |-> c, res |-> res,
                              frame |-> IF res = "Some" THEN grcons[c].index + 1 ELSE 0]
    /\ UNCHANGED <<grframes, grclosed, grhandles, grwf, grlast>>
    /\ UNCHANGED exceptGroup

\* Mutant of ReadFrameNext: the frame next_frame returned is kept in the
\* dropped future and not in `active`.
ReadFrameNextLocal(c) ==
    /\ c \in DOMAIN grcons
    /\ grcons[c].active = 0
    /\ LET res == NextFrameResult(c)
       IN /\ res # "Pending"
          /\ grcons' = IF res = "Some" THEN [grcons EXCEPT ![c].index = @ + 1]
                       ELSE [grcons EXCEPT ![c].none = (@ \/ res = "None")]
          /\ IF res = "Some" THEN UNCHANGED grrlast
             ELSE grrlast' = [op |-> "read_frame", c |-> c, frame |-> 0, res |-> res]
    /\ UNCHANGED <<grframes, grclosed, grhandles, grwf, grlast>>
    /\ UNCHANGED exceptGroup

\* GroupConsumer::read_frame on consumer c with no active frame: its
\* next_frame call. With a frame it goes on to read_all, and the frame stays
\* in `active` when the call is dropped there.
ReadFrameNext(c) ==
    /\ c \in DOMAIN grcons
    /\ grcons[c].active = 0
    /\ LET res == NextFrameResult(c)
       IN /\ res # "Pending"
          /\ IF res = "Some"
             THEN /\ grcons' = [grcons EXCEPT ![c].index = @ + 1,
                                              ![c].active = grcons[c].index + 1]
                  /\ UNCHANGED grrlast
             ELSE /\ grcons' = [grcons EXCEPT ![c].none = (@ \/ res = "None")]
                  /\ grrlast' = [op |-> "read_frame", c |-> c, frame |-> 0, res |-> res]
    /\ UNCHANGED <<grframes, grclosed, grhandles, grwf, grlast>>
    /\ UNCHANGED exceptGroup

\* GroupConsumer::read_frame on consumer c: read_all on the active frame
\* resolves. An error leaves the frame in `active`.
ReadFrameAll(c) ==
    /\ c \in DOMAIN grcons
    /\ grcons[c].active # 0
    /\ LET i == grcons[c].active
           res == ChildReadResult(grframes[i], "frame.read_all", 0)
       IN /\ res # "Pending"
          /\ grcons' = IF res = "Ok"
                       THEN [grcons EXCEPT ![c].active = 0, ![c].got = Append(@, i)]
                       ELSE grcons
          /\ grrlast' = [op |-> "read_frame", c |-> c, frame |-> i,
                         res |-> IF res = "Ok" THEN "Some" ELSE res]
    /\ UNCHANGED <<grframes, grclosed, grhandles, grwf, grlast>>
    /\ UNCHANGED exceptGroup

\* GroupProducer::consume: a consumer that starts at the first frame.
GroupConsume ==
    /\ (Len(grcons) + 1) \in GroupConsumerIds
    /\ grcons' = Append(grcons, NewGroupConsumer)
    /\ grrlast' = [op |-> "consume", c |-> Len(grcons) + 1, frame |-> 0, res |-> "Ok"]
    /\ UNCHANGED <<grframes, grclosed, grhandles, grwf, grlast>>
    /\ UNCHANGED exceptGroup

\* #[derive(Clone)] on GroupConsumer: the clone inherits `index` and `active`,
\* so it goes on from the frame its origin would be handed next.
GroupConsumerClone(c) ==
    /\ c \in DOMAIN grcons
    /\ (Len(grcons) + 1) \in GroupConsumerIds
    /\ grcons' = Append(grcons,
          [index |-> grcons[c].index, active |-> grcons[c].active,
           from |-> IF grcons[c].active # 0 THEN grcons[c].index - 1
                    ELSE grcons[c].index,
           got |-> <<>>, none |-> FALSE, resumed |-> FALSE])
    /\ grrlast' = [op |-> "clone", c |-> Len(grcons) + 1, frame |-> 0, res |-> "Ok"]
    /\ UNCHANGED <<grframes, grclosed, grhandles, grwf, grlast>>
    /\ UNCHANGED exceptGroup

\* One GroupProducer that creates empty frames, the producers of these frames
\* and the GroupConsumers.
GroupReadNext ==
    \/ AppendFrame(1, "create_frame", 0)
    \/ \E i \in 1..MaxGroupFrames : ChildClose(i)
    \/ GroupProducerClose(1)
    \/ \E err \in FrameErrors : GroupProducerAbort(1, err)
    \/ \E c \in GroupConsumerIds : NextFrame(c)
    \/ \E c \in GroupConsumerIds : ReadFrameNext(c)
    \/ \E c \in GroupConsumerIds : ReadFrameAll(c)
    \/ GroupConsume
    \/ \E c \in GroupConsumerIds : GroupConsumerClone(c)

SpecGroupRead == GroupInit /\ [][GroupReadNext]_vars

\* A call on the producer of a child frame, or on one of its consumers,
\* returns in this step.
ChildCallReturns == grlast' # grlast /\ grlast'.op \in {"frame.write_chunk", "frame.close"}
ChildReadReturns == grrlast' # grrlast /\ grrlast'.op \in ChildReadOps

\* C18: once the group was aborted with an error every frame of the group is
\* aborted with that error and stays so: write_chunk and close on its
\* producer fail, and read_chunk, read_all and closed on its consumers fail
\* with the error of the group.
AbortReachesFrames ==
    /\ [](grclosed \in FrameErrors =>
            \A i \in DOMAIN grframes : grframes[i].closed = grclosed)
    /\ [][(grclosed \in FrameErrors /\ ChildCallReturns)
             => (grlast'.res # "Ok")]_vars
    /\ [][(grclosed \in FrameErrors /\ ChildReadReturns)
             => (grrlast'.res = grclosed)]_vars

\* A call that appends a frame returns in this step: append_frame,
\* create_frame, or write_frame at the point where its create_frame returns.
AppendAttempt ==
    \/ grlast' # grlast /\ grlast'.op \in {"append_frame", "create_frame"}
    \/ grwf.pc = "idle" /\ grlast' # grlast /\ grlast'.op = "write_frame"
    \/ grwf.pc = "idle" /\ grwf'.pc # "idle"

\* C20: once close() has returned Ok the group never opens again, every
\* append_frame, create_frame and write_frame call made on any handle
\* returns an error, and the list of frames keeps its length.
ClosedGroupTakesNoFrames ==
    /\ [][(grclosed # "None") => (grclosed' # "None")]_vars
    /\ [][(grclosed # "None") => (Len(grframes') = Len(grframes))]_vars
    /\ [][(grclosed # "None" /\ AppendAttempt)
             => (grlast' # grlast /\ grlast'.res \in {"Closed"} \cup FrameErrors)]_vars

\* C20 witness: a frame was refused by a group that holds a frame and that
\* close() has closed.
AppendAfterClose ==
    /\ grclosed = "Ok"
    /\ grframes # <<>>
    /\ grlast.op \in {"append_frame", "create_frame", "write_frame"}
    /\ grlast.res = "Closed"

\* C21: a close() call on a group that close() has already closed does not
\* return Ok, and neither does a close() call on a frame that is closed.
RepeatedCloseFails ==
    /\ [][(grclosed = "Ok" /\ grlast' # grlast /\ grlast'.op = "close")
             => (grlast'.res # "Ok")]_vars
    /\ [][(fclosed = "Ok" /\ flast' # flast /\ flast'.op = "close")
             => (flast'.res # "Ok")]_vars

\* The frames f+1 .. f+n in append order.
Run(f, n) == [k \in 1..n |-> f + k]

ReadFrameCancelSafe ==
    /\ [][\A c \in DOMAIN grcons :
            LET k == grcons[c]
                n == grcons'[c]
            IN /\ n.index # k.index =>
                     /\ n.index = k.index + 1
                     /\ \/ n.got = Append(k.got, n.index) /\ n.active = 0
                        \/ n.got = k.got /\ n.active = n.index
               /\ k.active # 0 =>
                     /\ n.index = k.index
                     /\ \/ n.got = k.got /\ n.active = k.active
                        \/ n.got = Append(k.got, k.active) /\ n.active = 0]_vars
    /\ [][(grrlast' # grrlast /\ grrlast'.op = "read_frame" /\ grrlast'.res = "Some")
             => grframes[grrlast'.frame].closed = "Ok"]_vars

\* C32 witness: a read_frame call was dropped while it waited for the second
\* frame to be written, next_frame then returned that frame, and the consumer
\* has both frames in append order.
ResumedAfterCancel ==
    \E c \in DOMAIN grcons :
        /\ grcons[c].resumed
        /\ grcons[c].got = <<1, 2>>
        /\ grrlast = [op |-> "next_frame", c |-> c, frame |-> 2, res |-> "Some"]
        /\ grframes[2].closed = "None"

----------------------------------------------------------------------------
\* Track, its groups and their expire tasks.

Errors == {"Closed", "Cancel", "Expired"}

Min(S) == CHOOSE x \in S : \A y \in S : x <= y

\* Duration::saturating_sub
SaturatingSub(a, b) == IF a > b THEN a - b ELSE 0

\* The groups produced so far, and the slot the next one takes.
Produced == {i \in 1..GroupSlots : gclosed[i] # "Absent"}
NextSlot == Cardinality(Produced) + 1

\* The sequence numbers and slots of the groups stored in TrackState.groups.
StoredSeqs == {tgroups[i].seq : i \in DOMAIN tgroups}
StoredIds  == {tgroups[i].id : i \in DOMAIN tgroups}

\* The arrival instants of the stored groups with a larger sequence number.
NewerWhen(seq) == {tgroups[i].when : i \in {j \in DOMAIN tgroups : tgroups[j].seq > seq}}

\* The closed-track check at the top of insert_group and append_group.
TrackClosedCheck ==
    IF tclosed = "None" THEN "Ok"
    ELSE IF tclosed = "Ok" THEN "Closed" ELSE tclosed

\* Mutant of TrackStateInsertGroup: the assert! on the stored sequence numbers
\* is left out.
TrackStateInsertGroupUnchecked(seq) ==
    IF TrackClosedCheck # "Ok"
    THEN [res |-> TrackClosedCheck, expires |-> 0, next |-> tnext]
    ELSE IF NewerWhen(seq) # {}
    THEN LET left == SaturatingSub(texpires, now - Min(NewerWhen(seq)))
         IN IF left = 0
            THEN [res |-> "Expired", expires |-> 0, next |-> tnext]
            ELSE [res |-> "Ok", expires |-> left, next |-> tnext]
    ELSE [res |-> "Ok", expires |-> texpires, next |-> seq + 1]

\* TrackState::insert_group for a group of sequence seq: the result, the
\* expiration handed to the expire task and the new value of `next`.
TrackStateInsertGroup(seq) ==
    IF TrackClosedCheck # "Ok"
    THEN [res |-> TrackClosedCheck, expires |-> 0, next |-> tnext]
    ELSE IF seq \in StoredSeqs
    THEN [res |-> "panic", expires |-> 0, next |-> tnext]
    ELSE IF NewerWhen(seq) # {}
    THEN LET left == SaturatingSub(texpires, now - Min(NewerWhen(seq)))
         IN IF left = 0
            THEN [res |-> "Expired", expires |-> 0, next |-> tnext]
            ELSE [res |-> "Ok", expires |-> left, next |-> tnext]
    ELSE [res |-> "Ok", expires |-> texpires, next |-> seq + 1]

\* What is observed about the groups when group id of sequence seq is stored:
\* whether a newer group was ever produced, and the arrival instant of the
\* first strictly newer group (for a group stored after newer ones, the
\* earliest arrival among the newer groups still stored).
Observe(id, seq) ==
    [i \in 1..GroupSlots |->
        IF i = id
        THEN [seq |-> seq,
              newerEver |-> \E j \in Produced : ginfo[j].seq > seq,
              firstNewer |-> IF NewerWhen(seq) # {} THEN Min(NewerWhen(seq)) ELSE -1,
              expiredAt |-> -1]
        ELSE IF i \in Produced /\ ginfo[i].seq < seq
        THEN [ginfo[i] EXCEPT !.newerEver = TRUE,
                              !.firstNewer = IF i \in StoredIds /\ @ = -1 THEN now ELSE @]
        ELSE ginfo[i]]

\* A group of sequence seq comes too late: a group with a higher sequence
\* number is stored, and the earliest-arrived of those arrived at least
\* `expires` ago.
TooLate(seq) ==
    /\ NewerWhen(seq) # {}
    /\ now - Min(NewerWhen(seq)) >= texpires

\* The body shared by TrackProducer::create_group and insert_group: run
\* TrackState::insert_group under send_if_modified, then spawn expire().
TrackInsert(op, seq) ==
    LET r  == TrackStateInsertGroup(seq)
        id == NextSlot
    IN /\ ~tfault
       /\ id <= tlimit
       /\ tlast' = [op |-> op, res |-> r.res, dup |-> seq \in StoredSeqs,
                    late |-> TooLate(seq)]
       /\ IF r.res = "Ok"
          THEN /\ tgroups' = Append(tgroups, [id |-> id, seq |-> seq, when |-> now])
               /\ tnext' = r.next
               /\ gclosed' = [gclosed EXCEPT ![id] = "None"]
               /\ ginfo' = Observe(id, seq)
               /\ etask' = [etask EXCEPT ![id] =
                               [pc |-> "wait", expires |-> r.expires, deadline |-> 0]]
               /\ UNCHANGED tfault
          ELSE /\ tfault' = (tfault \/ r.res = "panic")
               /\ UNCHANGED <<tgroups, tnext, gclosed, ginfo, etask>>
       /\ UNCHANGED <<texpires, now, tclosed>>
       /\ UNCHANGED exceptTrack

\* TrackProducer::create_group(Group { sequence: seq }).
CreateGroup(seq) == TrackInsert("create_group", seq)

\* TrackProducer::insert_group of a group produced elsewhere.
InsertGroup(seq) == TrackInsert("insert_group", seq)

\* TrackProducer::append_group.
AppendGroup ==
    LET id == NextSlot
    IN /\ ~tfault
       /\ id <= tlimit
       /\ tlast' = NoCall
       /\ IF TrackClosedCheck = "Ok"
          THEN /\ tgroups' = Append(tgroups, [id |-> id, seq |-> tnext, when |-> now])
               /\ tnext' = tnext + 1
               /\ gclosed' = [gclosed EXCEPT ![id] = "None"]
               /\ ginfo' = Observe(id, tnext)
               /\ etask' = [etask EXCEPT ![id] =
                               [pc |-> "wait", expires |-> texpires, deadline |-> 0]]
          ELSE UNCHANGED <<tgroups, tnext, gclosed, ginfo, etask>>
       /\ UNCHANGED <<texpires, now, tclosed, tfault>>
       /\ UNCHANGED exceptTrack

\* TrackProducer::close.
TrackClose ==
    /\ ~tfault
    /\ tlast' = NoCall
    /\ tclosed' = IF tclosed \in Errors THEN tclosed ELSE "Ok"
    /\ UNCHANGED <<texpires, now, tgroups, tnext, gclosed, ginfo, etask, tfault>>
    /\ UNCHANGED exceptTrack

\* TrackProducer::abort(Error::Cancel).
TrackAbort ==
    /\ ~tfault
    /\ tclosed # "Cancel"
    /\ tclosed' = "Cancel"
    /\ tlast' = NoCall
    /\ UNCHANGED <<texpires, now, tgroups, tnext, gclosed, ginfo, etask, tfault>>
    /\ UNCHANGED exceptTrack

\* GroupProducer::abort(Error::Cancel) by the owner of group id.
GroupAbort(id) ==
    /\ ~tfault
    /\ gclosed[id] = "None"
    /\ gclosed' = [gclosed EXCEPT ![id] = "Cancel"]
    /\ UNCHANGED <<texpires, now, tgroups, tnext, tclosed, ginfo, etask, tfault>>
    /\ tlast' = NoCall
    /\ UNCHANGED exceptTrack

\* The tail of expire(): state.groups.retain(sequence != this one).
Retain(seq) == SelectSeq(tgroups, LAMBDA g : g.seq # seq)

\* expire(), first select! branch: consumer.aborted() resolved.
ExpireAborted(id) ==
    /\ ~tfault
    /\ etask[id].pc \in {"wait", "sleep"}
    /\ gclosed[id] \in Errors
    /\ etask' = [etask EXCEPT ![id] = DoneTask]
    /\ tgroups' = Retain(ginfo[id].seq)
    /\ UNCHANGED <<texpires, now, tnext, tclosed, gclosed, ginfo, tfault>>
    /\ tlast' = NoCall
    /\ UNCHANGED exceptTrack

\* Mutant of ExpireWaitFor: the timer of a group starts although the group is
\* still the latest one (off by one in the comparison with `next`).
ExpireWaitForOffByOne(id) == tclosed # "None" \/ tnext > ginfo[id].seq

\* The condition expire() waits for before it starts the timer.
ExpireWaitFor(id) == tclosed # "None" \/ tnext > ginfo[id].seq + 1

\* expire(), second select! branch: wait_for resolved; either the track was
\* aborted and the group is aborted with its error, or the timer starts.
ExpireWatch(id) ==
    /\ ~tfault
    /\ etask[id].pc = "wait"
    /\ ExpireWaitFor(id)
    /\ IF tclosed \in Errors
       THEN /\ gclosed' = [gclosed EXCEPT ![id] = tclosed]
            /\ etask' = [etask EXCEPT ![id] = DoneTask]
            /\ tgroups' = Retain(ginfo[id].seq)
       ELSE /\ etask' = [etask EXCEPT ![id] =
                          [pc |-> "sleep", expires |-> 0, deadline |-> now + etask[id].expires]]
            /\ UNCHANGED <<gclosed, tgroups>>
    /\ UNCHANGED <<texpires, now, tnext, tclosed, ginfo, tfault>>
    /\ tlast' = NoCall
    /\ UNCHANGED exceptTrack

\* expire(), second select! branch: the sleep elapsed, the group is aborted
\* with Expired and removed from the track.
ExpireTimer(id) ==
    /\ ~tfault
    /\ etask[id].pc = "sleep"
    /\ now >= etask[id].deadline
    /\ gclosed' = [gclosed EXCEPT ![id] = "Expired"]
    /\ ginfo' = [ginfo EXCEPT ![id].expiredAt = now]
    /\ etask' = [etask EXCEPT ![id] = DoneTask]
    /\ tgroups' = Retain(ginfo[id].seq)
    /\ UNCHANGED <<texpires, now, tnext, tclosed, tfault>>
    /\ tlast' = NoCall
    /\ UNCHANGED exceptTrack

\* An expire task that can run now.
TaskReady(id) ==
    \/ etask[id].pc \in {"wait", "sleep"} /\ gclosed[id] \in Errors
    \/ etask[id].pc = "wait" /\ ExpireWaitFor(id)
    \/ etask[id].pc = "sleep" /\ now >= etask[id].deadline

\* The clock advances while no task is ready to run (tasks are scheduled as
\* soon as they are woken; a timer fires at its deadline).
Tick ==
    /\ ~tfault
    /\ now < MaxTime
    /\ \A id \in 1..GroupSlots : ~TaskReady(id)
    /\ now' = now + 1
    /\ UNCHANGED <<texpires, tgroups, tnext, tclosed, gclosed, ginfo, etask, tfault>>
    /\ tlast' = NoCall
    /\ UNCHANGED exceptTrack

TrackInit ==
    /\ texpires \in 0..MaxExpires
    /\ tlimit = MaxGroups
    /\ TrackNew
    /\ fsize = 0 /\ FrameNew /\ GroupNew
    /\ OriginNew
    /\ AcceptParked
    /\ E2ENew

TrackNext ==
    \/ \E seq \in 0..MaxSeq : CreateGroup(seq)
    \/ \E seq \in 0..MaxSeq : InsertGroup(seq)
    \/ AppendGroup
    \/ TrackClose
    \/ TrackAbort
    \/ \E id \in 1..MaxGroups : GroupAbort(id)
    \/ \E id \in 1..MaxGroups : ExpireAborted(id)
    \/ \E id \in 1..MaxGroups : ExpireWatch(id)
    \/ \E id \in 1..MaxGroups : ExpireTimer(id)
    \/ Tick

SpecTrack == TrackInit /\ [][TrackNext]_vars

\* A group that readers can still read: produced and not aborted.
Readable(id) == gclosed[id] = "None"

\* C2: with expires > 0, a group that has a strictly newer group since
\* instant t is not expired before t + expires and is no longer readable
\* after t + expires.
ExpiresAfterNewer ==
    texpires > 0 =>
        \A id \in Produced :
            ginfo[id].firstNewer >= 0 =>
                /\ ginfo[id].expiredAt >= 0
                      => ginfo[id].expiredAt >= ginfo[id].firstNewer + texpires
                /\ Readable(id) => now <= ginfo[id].firstNewer + texpires
                /\ (gclosed[id] = "Expired") => ginfo[id].expiredAt >= 0

\* C2 witness: an older group was expired by the timer exactly expires
\* after the first newer group arrived.
ExpiredAfterNewerReached ==
    /\ texpires > 0
    /\ \E id \in Produced :
          /\ ginfo[id].firstNewer >= 0
          /\ gclosed[id] = "Expired"
          /\ ginfo[id].expiredAt = ginfo[id].firstNewer + texpires

\* C3: a group is never aborted with Expired while no group with a strictly
\* higher sequence number was ever produced in its track, also after close().
NeverSelfExpires ==
    \A id \in Produced : gclosed[id] = "Expired" => ginfo[id].newerEver

\* C6: create_group / insert_group with the sequence number of a stored group
\* returns an error, never faults, and leaves the stored groups unchanged.
DuplicateIsError ==
    /\ ~tfault
    /\ (tlast.op \in {"create_group", "insert_group"} /\ tlast.dup)
          => tlast.res \in Errors

\* A track with room for one more group than the track above.
LateInit ==
    /\ texpires \in 0..MaxExpires
    /\ tlimit = MaxGroups + 1
    /\ TrackNew
    /\ fsize = 0 /\ FrameNew /\ GroupNew
    /\ OriginNew
    /\ AcceptParked
    /\ E2ENew

LateNext ==
    \/ \E seq \in 0..MaxSeq : CreateGroup(seq)
    \/ \E seq \in 0..MaxSeq : InsertGroup(seq)
    \/ AppendGroup
    \/ TrackClose
    \/ \E id \in 1..GroupSlots : GroupAbort(id)
    \/ \E id \in 1..GroupSlots : ExpireAborted(id)
    \/ \E id \in 1..GroupSlots : ExpireWatch(id)
    \/ \E id \in 1..GroupSlots : ExpireTimer(id)
    \/ Tick

SpecLate == LateInit /\ [][LateNext]_vars

\* C13: a create_group / insert_group call on an open track for a group that
\* comes too late returns Err(Expired), stores no group, leaves `next` alone
\* and starts no expire task.
LateInsertExpires ==
    [][(tlast'.op \in {"create_group", "insert_group"} /\ tlast'.late /\ tclosed = "None")
          => /\ tlast'.res = "Expired"
             /\ UNCHANGED <<tgroups, tnext, gclosed, etask, tfault>>]_vars

\* C14: the groups stored in the track have pairwise distinct sequence numbers.
DistinctSequences ==
    \A i, j \in DOMAIN tgroups : i # j => tgroups[i].seq # tgroups[j].seq

\* C14 witness: a call with the sequence number of a stored group has just
\* been refused.
DuplicateRefused ==
    /\ tgroups # <<>>
    /\ tlast.op \in {"create_group", "insert_group"}
    /\ tlast.dup

----------------------------------------------------------------------------
\* TrackConsumer: the consumer made by Track::produce reads the track above.

\* The factor of the periodic clean-up of `seen` in next_group.
SeenSlack == 4

Max(S) == CHOOSE x \in S : \A y \in S : x >= y

\* The expire tasks that have not returned; each holds a clone of the
\* TrackProducer that spawned it.
LiveTasks == {i \in 1..GroupSlots : etask[i].pc \in {"wait", "sleep"}}

\* The watch::Sender handles of the track that are alive. The receivers'
\* wait_for fails once there is none.
Senders == thandles + Cardinality(LiveTasks)

\* The condition next_group waits for: the last stored group was not seen,
\* or the track is closed.
NextGroupWaitFor ==
    \/ tgroups # <<>> /\ tgroups[Len(tgroups)].seq \notin cseen
    \/ tclosed # "None"

\* `seen` after the periodic clean-up of next_group.
SeenRetained ==
    IF Cardinality(cseen) > SeenSlack * Len(tgroups)
    THEN cseen \cap StoredSeqs
    ELSE cseen

\* The positions in TrackState.groups of the groups not in `seen`.
Unseen(seen) == {i \in DOMAIN tgroups : tgroups[i].seq \notin seen}

\* Mutant of FirstUnseen: the newest group not seen yet is returned first.
LastUnseen(seen) == IF Unseen(seen) = {} THEN 0 ELSE Max(Unseen(seen))

\* The loop of next_group over state.groups: the first group not seen yet
\* (0 when there is none).
FirstUnseen(seen) == IF Unseen(seen) = {} THEN 0 ELSE Min(Unseen(seen))

\* TrackConsumer::next_group, from the moment its wait_for resolves. The call
\* is pending while neither the condition holds nor the channel is closed.
NextGroup ==
    /\ ~tfault
    /\ NextGroupWaitFor \/ Senders = 0
    /\ IF ~NextGroupWaitFor
       THEN /\ clast' = [op |-> "next_group", res |-> "Cancel", seq |-> 0]
            /\ UNCHANGED <<cseen, creturned>>
       ELSE IF tclosed \in Errors
       THEN /\ clast' = [op |-> "next_group", res |-> tclosed, seq |-> 0]
            /\ UNCHANGED <<cseen, creturned>>
       ELSE LET seen == SeenRetained
                i    == FirstUnseen(seen)
            IN IF i # 0
               THEN /\ cseen' = seen \cup {tgroups[i].seq}
                    /\ creturned' = Append(creturned, tgroups[i].seq)
                    /\ clast' = [op |-> "next_group", res |-> "Some",
                                 seq |-> tgroups[i].seq]
               ELSE /\ cseen' = seen
                    /\ clast' = [op |-> "next_group",
                                 res |-> IF tclosed = "Ok" THEN "None" ELSE "panic",
                                 seq |-> 0]
                    /\ UNCHANGED creturned
    /\ UNCHANGED <<tlimit, thandles>>
    /\ UNCHANGED exceptReader

\* TrackConsumer::closed, from the moment its wait_for resolves.
TrackConsumerClosed ==
    /\ ~tfault
    /\ tclosed # "None" \/ Senders = 0
    /\ clast' = [op |-> "closed",
                 res |-> IF tclosed # "None" THEN tclosed ELSE "Cancel",
                 seq |-> 0]
    /\ UNCHANGED <<tlimit, thandles, cseen, creturned>>
    /\ UNCHANGED exceptReader

\* #[derive(Clone)] on TrackProducer: one more handle on the same state.
TrackProducerClone ==
    /\ ~tfault
    /\ thandles > 0
    /\ thandles < MaxTrackHandles
    /\ thandles' = thandles + 1
    /\ UNCHANGED <<tlimit, cseen, creturned, clast>>
    /\ UNCHANGED exceptReader

\* The application drops a TrackProducer handle without close() or abort().
TrackProducerDrop ==
    /\ ~tfault
    /\ thandles > 0
    /\ thandles' = thandles - 1
    /\ UNCHANGED <<tlimit, cseen, creturned, clast>>
    /\ UNCHANGED exceptReader

\* The calls that need a TrackProducer handle.
ByTrackProducer ==
    /\ thandles > 0
    /\ \/ \E seq \in 0..MaxSeq : CreateGroup(seq)
       \/ \E seq \in 0..MaxSeq : InsertGroup(seq)
       \/ AppendGroup
       \/ TrackClose
       \/ TrackAbort

\* The same track while the clock stands still: with expires = 0 a group
\* expires as soon as a newer one is stored, with a long expires none does.
ArrivalInit ==
    /\ TrackInit
    /\ texpires \in {0, MaxExpires}

ArrivalNext ==
    \/ ByTrackProducer
    \/ \E id \in 1..GroupSlots : GroupAbort(id)
    \/ \E id \in 1..GroupSlots : ExpireAborted(id)
    \/ \E id \in 1..GroupSlots : ExpireWatch(id)
    \/ \E id \in 1..GroupSlots : ExpireTimer(id)
    \/ NextGroup

SpecArrival == ArrivalInit /\ [][ArrivalNext]_vars

\* The same again, with the producer handles cloned and dropped and the
\* consumer waiting for the track to close. The consumer's calls return once
\* they can and the expire tasks run once they are woken.
ExpireTasks ==
    \/ \E id \in 1..GroupSlots : ExpireAborted(id)
    \/ \E id \in 1..GroupSlots : ExpireWatch(id)
    \/ \E id \in 1..GroupSlots : ExpireTimer(id)

DropNext ==
    \/ ArrivalNext
    \/ TrackProducerClone
    \/ TrackProducerDrop
    \/ TrackConsumerClosed

SpecDrop ==
    /\ ArrivalInit
    /\ [][DropNext]_vars
    /\ WF_vars(NextGroup)
    /\ WF_vars(TrackConsumerClosed)
    /\ WF_vars(ExpireTasks)

\* Every TrackProducer handle of the application was dropped, the track was
\* neither closed nor aborted, and no expire task is waiting for its timer.
ProducersDropped ==
    /\ thandles = 0
    /\ tclosed = "None"
    /\ ~tfault
    /\ \A id \in 1..GroupSlots : etask[id].pc # "sleep"

\* C15: once every TrackProducer handle has been dropped without close() or
\* abort(), a next_group or closed call of the consumer returns an error.
DroppedProducerFailsReads == ProducersDropped ~> (clast.res \in Errors)

\* No group of the track was aborted or has expired.
NoneLost == \A id \in Produced : gclosed[id] \notin Errors

\* The sequence numbers of the groups of the track, in the order in which
\* they were created or inserted.
Arrived == [i \in 1..Cardinality(Produced) |-> ginfo[i].seq]

\* C11: while no group of the track has expired or been aborted, what
\* next_group has returned to the consumer of Track::produce is a prefix of
\* the groups in arrival order, whatever their sequence numbers; a call is not
\* left pending while a group was not returned yet, and None is returned only
\* after all of them.
ArrivalOrder ==
    NoneLost =>
        /\ Len(creturned) <= Len(Arrived)
        /\ creturned = SubSeq(Arrived, 1, Len(creturned))
        /\ Len(creturned) < Len(Arrived) => NextGroupWaitFor
        /\ clast.res = "None" => creturned = Arrived

\* C11 witness: sequence 1 arrived before sequence 0 and the consumer was
\* handed 1, then 0.
ArrivedOutOfOrder ==
    /\ NoneLost
    /\ Arrived = <<1, 0>>
    /\ creturned = <<1, 0>>

\* No expire task is ready to run.
NoTaskReady == \A id \in 1..GroupSlots : ~TaskReady(id)

\* #[derive(Clone)] on TrackConsumer: the clone gets a copy of `seen` and its
\* own Receiver of the same channel.
TrackConsumerClone ==
    /\ ~tfault
    /\ kstart = -1
    /\ kstart' = Cardinality(Produced)
    /\ kinherit' = cseen
    /\ kseen' = cseen
    /\ UNCHANGED <<kreturned, knone>>
    /\ UNCHANGED exceptClone

\* Mutant of SeenOfOther: `seen` is shared between the clones.
SeenOfOtherShared(seen, seq) == seen \cup {seq}

\* `seen` of a TrackConsumer after another clone was handed the group seq:
\* each handle owns its HashSet.
SeenOfOther(seen, seq) == seen

\* TrackConsumer::next_group on the clone, from the moment its wait_for
\* resolves: the code of NextGroup on the clone's `seen`.
CloneNextGroup ==
    /\ ~tfault
    /\ kstart # -1
    /\ LET waitFor == \/ tgroups # <<>> /\ tgroups[Len(tgroups)].seq \notin kseen
                      \/ tclosed # "None"
           seen == IF Cardinality(kseen) > SeenSlack * Len(tgroups)
                   THEN kseen \cap StoredSeqs ELSE kseen
           i == FirstUnseen(seen)
       IN /\ waitFor \/ Senders = 0
          /\ IF ~waitFor \/ tclosed \in Errors
             THEN UNCHANGED <<kseen, kreturned, knone, cseen>>
             ELSE IF i # 0
             THEN /\ kseen' = seen \cup {tgroups[i].seq}
                  /\ kreturned' = Append(kreturned, tgroups[i].seq)
                  /\ cseen' = SeenOfOther(cseen, tgroups[i].seq)
                  /\ UNCHANGED knone
             ELSE /\ kseen' = seen
                  /\ knone' = (tclosed = "Ok")
                  /\ UNCHANGED <<kreturned, cseen>>
    /\ UNCHANGED <<kstart, kinherit, tlimit, thandles, creturned, clast>>
    /\ UNCHANGED <<frameVars, frameReadVars, groupVars, trackVars, originVars, acceptVars, e2eVars,
                   sessionVars>>

\* The track with the consumer of Track::produce and one clone of it. The
\* expire tasks run as soon as they are woken and the clock stands still.
FanoutNext ==
    \/ /\ NoTaskReady
       /\ \/ \E seq \in 0..MaxSeq : CreateGroup(seq)
          \/ AppendGroup
          \/ TrackClose
          \/ TrackAbort
          \/ \E id \in 1..GroupSlots : GroupAbort(id)
          \/ NextGroup
          \/ TrackConsumerClone
          \/ CloneNextGroup
    \/ \E id \in 1..GroupSlots : ExpireAborted(id)
    \/ \E id \in 1..GroupSlots : ExpireWatch(id)
    \/ \E id \in 1..GroupSlots : ExpireTimer(id)

SpecFanout == ArrivalInit /\ [][FanoutNext]_vars

\* s is a prefix of t.
IsPrefix(s, t) == Len(s) <= Len(t) /\ s = SubSeq(t, 1, Len(s))

\* The sequence numbers of the groups added after the clone was made.
AddedAfterClone == {Arrived[j] : j \in (kstart + 1)..Len(Arrived)}

\* What the clone has been handed.
CloneReturned == {kreturned[k] : k \in DOMAIN kreturned}

\* A next_group call on one handle took nothing away from the other: each
\* was handed a prefix of the groups it had not seen, in arrival order.
EachItsOwn ==
    /\ IsPrefix(creturned, Arrived)
    /\ IsPrefix(kreturned, SelectSeq(Arrived, LAMBDA q : q \notin kinherit))

\* C23 as stated: a clone of the TrackConsumer is not left pending (unless
\* the track was aborted or has panicked) and is not handed None while a group added after the clone was made has not been
\* returned to it, and no next_group call changes what the other handle gets.
FanoutEvery ==
    kstart # -1 =>
        /\ ~(AddedAfterClone \subseteq CloneReturned)
              => (~knone /\ ((tclosed \notin Errors /\ ~tfault) => ENABLED CloneNextGroup))
        /\ EachItsOwn

\* C23, amended: the same while no group of the track has expired or been
\* aborted.
FanoutWhileStored ==
    (kstart # -1 /\ NoneLost) =>
        /\ ~(AddedAfterClone \subseteq CloneReturned)
              => (~knone /\ ((tclosed \notin Errors /\ ~tfault) => ENABLED CloneNextGroup))
        /\ EachItsOwn

\* C23 witness: the clone was made before both groups and each handle was
\* handed both of them, then the clone was handed None.
BothHandedAll ==
    /\ kstart = 0
    /\ NoneLost
    /\ Len(Arrived) = 2
    /\ kreturned = Arrived
    /\ creturned = Arrived
    /\ knone

\* C22: with the track closed by close(), the group with the highest sequence
\* number, which no newer group can expire, is not expired, and next_group
\* has not returned None to the consumer of Track::produce without having
\* returned that group, unless the application aborted the group.
ClosedTrackFlushes ==
    \A id \in Produced :
        (tclosed = "Ok" /\ ginfo[id].seq + 1 = tnext) =>
            /\ gclosed[id] # "Expired"
            /\ (clast.op = "next_group" /\ clast.res = "None")
                  => (gclosed[id] = "Cancel" \/ \E k \in DOMAIN creturned : creturned[k] = ginfo[id].seq)

----------------------------------------------------------------------------
\* Sequence numbers used again after their group left the track. The expire
\* tasks run as soon as they are woken and the clock stands still.

ReuseInit ==
    /\ texpires = 0
    /\ tlimit = ReuseGroups
    /\ TrackNew
    /\ fsize = 0 /\ FrameNew /\ GroupNew
    /\ OriginNew
    /\ AcceptParked
    /\ E2ENew

ReuseNext ==
    \/ NoTaskReady /\ AppendGroup
    \/ NoTaskReady /\ \E seq \in 0..MaxSeq : CreateGroup(seq)
    \/ NoTaskReady /\ \E id \in 1..GroupSlots : GroupAbort(id)
    \/ NoTaskReady /\ NextGroup
    \/ \E id \in 1..GroupSlots : ExpireAborted(id)
    \/ \E id \in 1..GroupSlots : ExpireWatch(id)
    \/ \E id \in 1..GroupSlots : ExpireTimer(id)

SpecReuse == ReuseInit /\ [][ReuseNext]_vars

\* C38: the sequence number append_group assigns is greater than the sequence
\* number of every group produced for the track before, stored or not (and
\* so greater than the one of every earlier append_group).
AppendedAboveAll ==
    [][(NextSlot' = NextSlot + 1 /\ tlast'.op = "none")
          => \A i \in Produced : ginfo'[NextSlot].seq > ginfo[i].seq]_vars

\* C12: the consumer is never handed two groups with the same sequence
\* number by next_group, whatever groups are created, inserted, expired and
\* removed in between.
NeverSameSequenceTwice ==
    \A i, j \in DOMAIN creturned : i # j => creturned[i] # creturned[j]

----------------------------------------------------------------------------
\* Origin: the announcement tree, its producer handles and its consumers.

Range(f) == {f[i] : i \in DOMAIN f}

\* Path::has_prefix on paths split into segments: prefix matches whole segments.
HasPrefix(path, prefix) ==
    /\ Len(prefix) <= Len(path)
    /\ SubSeq(path, 1, Len(prefix)) = prefix

\* Path::next_part: the first directory segment and the rest, None when empty.
NextPart(path) ==
    IF path = <<>> THEN [some |-> FALSE, dir |-> "", rest |-> <<>>]
    ELSE [some |-> TRUE, dir |-> Head(path), rest |-> Tail(path)]

\* Path::join
Join(prefix, path) == prefix \o path

\* OriginNode::leaf, called on the node at position pos: None, or the node found.
RECURSIVE Leaf(_, _)
Leaf(pos, path) ==
    LET np == NextPart(path)
    IN IF ~np.some THEN [some |-> FALSE, node |-> <<>>]
       ELSE IF (pos \o <<np.dir>>) \notin onodes THEN [some |-> FALSE, node |-> <<>>]
       ELSE Leaf(pos \o <<np.dir>>, np.rest)

\* OriginRoots::scope: the loop over roots (index i) and prefixes (index j).
RECURSIVE ScopeFrom(_, _, _, _)
ScopeFrom(roots, prefixes, i, j) ==
    IF i > Len(roots) THEN <<>>
    ELSE IF j > Len(prefixes) THEN ScopeFrom(roots, prefixes, i + 1, 1)
    ELSE IF ~HasPrefix(prefixes[j], roots[i].root)
    THEN ScopeFrom(roots, prefixes, i, j + 1)
    ELSE LET leaf == Leaf(roots[i].node, prefixes[j])
             nested == IF leaf.some THEN leaf.node ELSE roots[i].node
         IN <<[root |-> roots[i].root, node |-> nested]>>
               \o ScopeFrom(roots, prefixes, i, j + 1)

\* OriginRoots::scope: <<>> stands for None.
Scope(roots, prefixes) == ScopeFrom(roots, prefixes, 1, 1)

\* OriginRoots::get: the node of the first root that is a prefix of path.
RECURSIVE RootsGetFrom(_, _, _)
RootsGetFrom(roots, path, i) ==
    IF i > Len(roots) THEN [some |-> FALSE, node |-> <<>>]
    ELSE IF HasPrefix(path, roots[i].root) THEN [some |-> TRUE, node |-> roots[i].node]
    ELSE RootsGetFrom(roots, path, i + 1)

RootsGet(roots, path) == RootsGetFrom(roots, path, 1)

\* The nodes OriginNode::publish / remove visit from node down to the leaf of path.
Walk(node, path) == {node \o SubSeq(path, 1, k) : k \in 0..Len(path)}

RECURSIVE Repeat(_, _)
Repeat(seq, n) == IF n = 0 THEN <<>> ELSE seq \o Repeat(seq, n - 1)

\* Orders in which a HashMap may iterate over the nested nodes.
Orders == {f \in [1..Cardinality(Segs) -> Segs] : \A i, j \in DOMAIN f : f[i] = f[j] => i = j}

\* OriginNode::consume_initial on the node at pos: its own broadcast, then
\* the nested nodes in the order the map iterates.
RECURSIVE Snapshot(_, _)
RECURSIVE SnapshotNested(_, _, _)
Snapshot(pos, order) ==
    (IF obcast[pos].active # 0
     THEN <<[path |-> obcast[pos].path, b |-> obcast[pos].active]>> ELSE <<>>)
       \o SnapshotNested(pos, order, 1)
SnapshotNested(pos, order, i) ==
    IF i > Len(order) THEN <<>>
    ELSE (IF (pos \o <<order[i]>>) \in onodes THEN Snapshot(pos \o <<order[i]>>, order)
          ELSE <<>>) \o SnapshotNested(pos, order, i + 1)

\* OriginConsumer::new: OriginNode::consume on every root in turn; the
\* events it sends into the new channel.
RECURSIVE InitialEvents(_, _, _)
InitialEvents(roots, order, i) ==
    IF i > Len(roots) THEN <<>>
    ELSE Snapshot(roots[i].node, order) \o InitialEvents(roots, order, i + 1)

\* OriginConsumer::new with the given roots; asked / scope / narrowed record
\* how the consumer was obtained.
ConsumerNew(roots, asked, scope, narrowed) ==
    \E order \in Orders :
        LET id == Len(ocons) + 1
        IN /\ ocons' = Append(ocons, [roots |-> roots, asked |-> asked, scope |-> scope,
                                      narrowed |-> narrowed,
                                      events |-> InitialEvents(roots, order, 1)])
           /\ oconsumers' = [p \in Paths |->
                                IF \E i \in DOMAIN roots : roots[i].node = p
                                THEN oconsumers[p] \cup {id} ELSE oconsumers[p]]
           /\ oread' = Append(oread, 0)

\* The same without the unannounce of a replaced broadcast.
PublishEventsBare(c, node, path, b, reannounce) ==
    Repeat(<<[path |-> path, b |-> b]>>,
           Cardinality({pos \in Walk(node, path) : c \in oconsumers[pos]}))

\* The events OriginNode::publish sends to consumer c while it returns from
\* the leaf of path up to node: once per visited node c is registered with.
PublishEvents(c, node, path, b, reannounce) ==
    Repeat((IF reannounce THEN <<[path |-> path, b |-> 0]>> ELSE <<>>)
              \o <<[path |-> path, b |-> b]>>,
           Cardinality({pos \in Walk(node, path) : c \in oconsumers[pos]}))

\* The prefixes of a list that lie inside a set of allowed prefixes.
Inside(prefixes, allowed) ==
    {p \in Range(prefixes) : \E q \in allowed : HasPrefix(p, q)}

\* OriginProducer::publish_broadcast(path, b) on handle h.
PublishBroadcast(h, path, b) ==
    /\ h \in DOMAIN oprod \ odropped
    /\ opublished < MaxPublishes
    /\ opublished' = opublished + 1
    /\ LET root == RootsGet(oprod[h].roots, path)
           leaf == root.node \o path
           reannounce == obcast[leaf].active # 0
       IN /\ olast' = [op |-> "publish_broadcast",
                       res |-> IF root.some THEN "true" ELSE "false",
                       inside |-> \E q \in oprod[h].allowed : HasPrefix(path, q),
                       changed |-> root.some, final |-> FALSE, told |-> TRUE]
          /\ IF root.some
             THEN /\ onodes' = onodes \cup Walk(root.node, path)
                  /\ obcast' = [obcast EXCEPT ![leaf] =
                        IF reannounce
                        THEN [active |-> b, backup |-> Append(@.backup, @.active), path |-> @.path]
                        ELSE [active |-> b, backup |-> <<>>, path |-> path]]
                  /\ ocons' = [c \in DOMAIN ocons |->
                        [ocons[c] EXCEPT !.events =
                            @ \o PublishEvents(c, root.node, path, b, reannounce)]]
                  /\ otasks' = otasks (+) SetToBag({[node |-> root.node, path |-> path, b |-> b]})
                  /\ ohist' = Append(ohist, [path |-> path, b |-> b])
             ELSE UNCHANGED <<onodes, obcast, ocons, otasks, ohist>>
    /\ UNCHANGED <<oconsumers, bclosed, oprod, odropped, oread>>
    /\ UNCHANGED exceptOrigin

\* The producer of broadcast b is closed or dropped: closed() resolves.
CloseBroadcast(b) ==
    /\ ~bclosed[b]
    /\ bclosed' = [bclosed EXCEPT ![b] = TRUE]
    /\ olast' = NoOriginCall
    /\ UNCHANGED <<onodes, obcast, oconsumers, otasks, oprod, ocons, opublished>>
    /\ UNCHANGED <<ohist, odropped, oread>>
    /\ UNCHANGED exceptOrigin

\* A search of the backups that never finds the broadcast.
PositionNone(seq, x) == 0

\* Index of the first element of seq equal to x, 0 when absent (Iterator::position).
Position(seq, x) ==
    IF \E i \in DOMAIN seq : seq[i] = x
    THEN Min({i \in DOMAIN seq : seq[i] = x}) ELSE 0

RemoveAt(seq, i) == SubSeq(seq, 1, i - 1) \o SubSeq(seq, i + 1, Len(seq))

\* OriginNode::is_empty for the node at pos, given the nodes and broadcasts.
IsEmpty(pos, nodes, bc) ==
    /\ bc[pos].active = 0
    /\ ~\E s \in Segs : (pos \o <<s>>) \in nodes
    /\ oconsumers[pos] = {}

\* OriginNode::remove on its way back: a nested node that is empty is removed
\* from its parent, from the leaf (k = Len(path)) up to the child of node.
RECURSIVE Prune(_, _, _, _, _)
Prune(nodes, bc, node, path, k) ==
    IF k = 0 THEN nodes
    ELSE LET child == node \o SubSeq(path, 1, k)
         IN Prune(IF IsEmpty(child, nodes, bc) THEN nodes \ {child} ELSE nodes,
                  bc, node, path, k - 1)

\* The same without the backups taking over from a removed active broadcast.
RemoveLeafForget(entry, b) ==
    IF entry.active = 0 THEN entry
    ELSE IF Position(entry.backup, b) # 0
    THEN [entry EXCEPT !.backup = RemoveAt(@, Position(entry.backup, b))]
    ELSE NoBroadcast

\* The broadcast entry of the leaf after OriginNode::remove(path, b).
RemoveLeaf(entry, b) ==
    IF entry.active = 0 THEN entry
    ELSE IF Position(entry.backup, b) # 0
    THEN [entry EXCEPT !.backup = RemoveAt(@, Position(entry.backup, b))]
    ELSE IF entry.backup # <<>>
    THEN [entry EXCEPT !.active = entry.backup[Len(entry.backup)],
                       !.backup = SubSeq(@, 1, Len(@) - 1)]
    ELSE NoBroadcast

\* The events OriginNode::remove(path, b) sends to the consumers of the leaf.
RemoveEvents(entry, path, b) ==
    IF entry.active = 0 \/ Position(entry.backup, b) # 0 THEN <<>>
    ELSE <<[path |-> path, b |-> 0]>>
            \o (IF entry.backup # <<>>
                THEN <<[path |-> path, b |-> entry.backup[Len(entry.backup)]]>> ELSE <<>>)

\* Number of unannounce events for path in a sequence of events.
Unannounced(events, path) ==
    Cardinality({i \in DOMAIN events : events[i].path = path /\ events[i].b = 0})

\* A consumer whose scope contains path.
InScope(c, path) == \E q \in ocons[c].scope : HasPrefix(path, q)

\* The task spawned by publish_broadcast: once the broadcast is closed it
\* calls OriginNode::remove(path, b) on the root it published to.
RemoveTask(t) ==
    /\ BagIn(t, otasks)
    /\ bclosed[t.b]
    /\ LET leaf  == t.node \o t.path
           entry == obcast[leaf]
           bc    == [obcast EXCEPT ![leaf] = RemoveLeaf(entry, t.b)]
           sent  == RemoveEvents(entry, t.path, t.b)
           panic == /\ entry.active # 0
                    /\ Position(entry.backup, t.b) = 0
                    /\ entry.active # t.b
       IN /\ otasks' = otasks (-) SetToBag({t})
          /\ IF panic
             THEN /\ olast' = [NoOriginCall EXCEPT !.op = "remove", !.res = "panic"]
                  /\ UNCHANGED <<onodes, obcast, ocons>>
             ELSE /\ obcast' = bc
                  /\ onodes' = Prune(onodes \cup Walk(t.node, t.path), bc,
                                     t.node, t.path, Len(t.path))
                  /\ ocons' = [c \in DOMAIN ocons |->
                        IF c \in oconsumers[leaf]
                        THEN [ocons[c] EXCEPT !.events = @ \o sent] ELSE ocons[c]]
                  /\ olast' = [op |-> "remove", res |-> "done", inside |-> TRUE,
                               changed |-> bc # obcast,
                               final |-> /\ entry.active = t.b
                                         /\ Position(entry.backup, t.b) = 0
                                         /\ \A i \in DOMAIN entry.backup : bclosed[entry.backup[i]],
                               told |-> \A c \in DOMAIN ocons :
                                   InScope(c, t.path) =>
                                       Unannounced(ocons'[c].events, t.path)
                                          = Unannounced(ocons[c].events, t.path) + 1]
    /\ UNCHANGED <<oconsumers, bclosed, oprod, opublished, ohist, odropped, oread>>
    /\ UNCHANGED exceptOrigin

\* The body shared by publish_only and with_root: a new handle over
\* roots.scope(prefixes), or None.
ProducerScoped(op, h, prefixes, prefix) ==
    /\ h \in DOMAIN oprod \ odropped
    /\ Len(oprod) < MaxProducers
    /\ LET roots == Scope(oprod[h].roots, prefixes)
       IN /\ olast' = [op |-> op, res |-> IF roots = <<>> THEN "None" ELSE "Some",
                       inside |-> Inside(prefixes, oprod[h].allowed) # {},
                       changed |-> FALSE, final |-> FALSE, told |-> TRUE]
          /\ oprod' = IF roots = <<>> THEN oprod
                      ELSE Append(oprod, [roots |-> roots, prefix |-> prefix,
                                          allowed |-> Inside(prefixes, oprod[h].allowed)])
    /\ UNCHANGED <<onodes, obcast, oconsumers, bclosed, otasks, ocons, opublished>>
    /\ UNCHANGED <<ohist, odropped, oread>>
    /\ UNCHANGED exceptOrigin

\* OriginProducer::publish_only(prefixes) on handle h.
PublishOnly(h, prefixes) == ProducerScoped("publish_only", h, prefixes, oprod[h].prefix)

\* OriginProducer::with_root(prefix) on handle h.
WithRoot(h, prefix) ==
    ProducerScoped("with_root", h, <<prefix>>, Join(oprod[h].prefix, prefix))

\* OriginProducer::consume() on handle h.
Consume(h) ==
    /\ h \in DOMAIN oprod \ odropped
    /\ Len(ocons) < MaxConsumers
    /\ ConsumerNew(oprod[h].roots, oprod[h].allowed, oprod[h].allowed, FALSE)
    /\ olast' = NoOriginCall
    /\ UNCHANGED <<onodes, obcast, bclosed, otasks, oprod, opublished, ohist, odropped>>
    /\ UNCHANGED exceptOrigin

\* The body shared by the two consume_only: a consumer over
\* roots.scope(prefixes), or None.
ConsumeScoped(roots, allowed, prefixes) ==
    /\ Len(ocons) < MaxConsumers
    /\ LET scoped == Scope(roots, prefixes)
       IN /\ olast' = [op |-> "consume_only", res |-> IF scoped = <<>> THEN "None" ELSE "Some",
                       inside |-> Inside(prefixes, allowed) # {},
                       changed |-> FALSE, final |-> FALSE, told |-> TRUE]
          /\ IF scoped = <<>>
             THEN UNCHANGED <<ocons, oconsumers, oread>>
             ELSE ConsumerNew(scoped, Range(prefixes), Inside(prefixes, allowed), TRUE)
    /\ UNCHANGED <<onodes, obcast, bclosed, otasks, oprod, opublished, ohist, odropped>>
    /\ UNCHANGED exceptOrigin

\* OriginProducer::consume_only(prefixes) on handle h.
ConsumeOnly(h, prefixes) ==
    /\ h \in DOMAIN oprod \ odropped
    /\ ConsumeScoped(oprod[h].roots, oprod[h].allowed, prefixes)

\* OriginConsumer::consume_only(prefixes) on consumer c.
ConsumerConsumeOnly(c, prefixes) ==
    /\ c \in DOMAIN ocons
    /\ ConsumeScoped(ocons[c].roots, ocons[c].scope, prefixes)

OriginInit ==
    /\ OriginNew
    /\ fsize = 0 /\ FrameNew /\ GroupNew
    /\ TrackParked
    /\ AcceptParked
    /\ E2ENew

OriginNext ==
    \/ \E h \in 1..MaxProducers, path \in Paths, b \in Bcasts : PublishBroadcast(h, path, b)
    \/ \E b \in Bcasts : CloseBroadcast(b)
    \/ \E t \in BagToSet(otasks) : RemoveTask(t)
    \/ \E h \in 1..MaxProducers, prefixes \in PrefixLists : PublishOnly(h, prefixes)
    \/ \E h \in 1..MaxProducers, prefix \in Paths : WithRoot(h, prefix)
    \/ \E h \in 1..MaxProducers : Consume(h)
    \/ \E h \in 1..MaxProducers, prefixes \in PrefixLists : ConsumeOnly(h, prefixes)
    \/ \E c \in 1..MaxConsumers, prefixes \in PrefixLists : ConsumerConsumeOnly(c, prefixes)

SpecOrigin == OriginInit /\ [][OriginNext]_vars

\* The events of a consumer that are about one path, in order.
EventsFor(c, path) == SelectSeq(ocons[c].events, LAMBDA e : e.path = path)

\* C4: for every consumer and path the events strictly alternate, starting
\* with an announce: announce, unannounce, announce, ...
AnnouncesAlternate ==
    \A c \in DOMAIN ocons : \A path \in Paths :
        LET ev == EventsFor(c, path)
        IN \A i \in DOMAIN ev : (ev[i].b # 0) = (i % 2 = 1)

\* C5: when the active broadcast of a path is removed and no other broadcast
\* published on the path is still open, every consumer whose scope contains
\* the path is sent exactly one unannounce for it.
ClosedActiveIsUnannounced ==
    (olast.op = "remove" /\ olast.final) => olast.told

\* C7: a consumer obtained through consume_only(prefixes) is only sent
\* events for paths under one of these prefixes.
ConsumeOnlyStaysInScope ==
    \A c \in DOMAIN ocons :
        ocons[c].narrowed =>
            \A i \in DOMAIN ocons[c].events :
                \E p \in ocons[c].asked : HasPrefix(ocons[c].events[i].path, p)

\* C8: publish_broadcast outside the allowed prefixes of a handle returns
\* false and changes nothing, and publish_only / consume_only / with_root
\* with no prefix inside the allowed set return None.
PublishOnlyStaysInScope ==
    /\ (olast.op = "publish_broadcast" /\ ~olast.inside)
          => (olast.res = "false" /\ ~olast.changed)
    /\ (olast.op \in {"publish_only", "consume_only", "with_root"} /\ ~olast.inside)
          => olast.res = "None"

\* OriginNode::consume_broadcast on the node at pos: 0 stands for None.
RECURSIVE NodeConsumeBroadcast(_, _)
NodeConsumeBroadcast(pos, rest) ==
    LET np == NextPart(rest)
    IN IF np.some
       THEN IF (pos \o <<np.dir>>) \in onodes
            THEN NodeConsumeBroadcast(pos \o <<np.dir>>, np.rest) ELSE 0
       ELSE obcast[pos].active

\* OriginConsumer::consume_broadcast(path) on consumer c.
ConsumeBroadcast(c, path) ==
    LET root == RootsGet(ocons[c].roots, path)
    IN IF root.some THEN NodeConsumeBroadcast(root.node, path) ELSE 0

\* The paths published on when one path is replaced: the root and one below it.
ReplacePaths == {<<>>, <<"a">>}

\* Publishing and closing through the handle of Origin::produce, with the
\* consumer of Origin::produce and consumers narrowed to the path below the root.
ReplaceNext ==
    \/ \E path \in ReplacePaths, b \in Bcasts : PublishBroadcast(1, path, b)
    \/ \E b \in Bcasts : CloseBroadcast(b)
    \/ \E t \in BagToSet(otasks) : RemoveTask(t)
    \/ ConsumeOnly(1, <<<<"a">>>>)

SpecReplace == OriginInit /\ [][ReplaceNext]_vars

ClosedActiveFallsBack ==
    [][\A t \in BagToSet(otasks) :
          LET e    == obcast[t.node \o t.path]
              open == {i \in DOMAIN e.backup : ~bclosed[e.backup[i]]}
          IN (/\ olast'.op = "remove"
              /\ otasks' = otasks (-) SetToBag({t})
              /\ e.active = t.b
              /\ Position(e.backup, t.b) = 0
              /\ open # {})
                => /\ obcast'[t.node \o t.path].active = e.backup[Max(open)]
                   /\ \A c \in DOMAIN ocons :
                         InScope(c, t.path) =>
                             ocons'[c].events = ocons[c].events
                                 \o <<[path |-> t.path, b |-> 0],
                                      [path |-> t.path, b |-> e.backup[Max(open)]]>>]_vars

\* The publishes on path whose broadcast is still open, in publish order.
OpenOn(path) == SelectSeq(ohist, LAMBDA e : e.path = path /\ ~bclosed[e.b])

\* Every broadcast that is closed has had its remove task run.
RemovalsRan == \A t \in BagToSet(otasks) : ~bclosed[t.b]

\* C26: once the removals have run, consume_broadcast(path) is None exactly
\* when every broadcast published on the path is closed, and is otherwise
\* the most recently published broadcast that is still open.
LastOpenWins ==
    RemovalsRan =>
        \A c \in DOMAIN ocons : \A path \in Paths :
            ConsumeBroadcast(c, path) =
                IF OpenOn(path) = <<>> THEN 0 ELSE OpenOn(path)[Len(OpenOn(path))].b

\* C26 witness: two broadcasts were published on a path, the newer one was
\* closed and removed first, and the older one is the active one again.
OlderOutlivesNewer ==
    \E path \in Paths :
        LET on == SelectSeq(ohist, LAMBDA e : e.path = path)
        IN /\ Len(on) = 2
           /\ on[1].b # on[2].b
           /\ bclosed[on[2].b] /\ ~bclosed[on[1].b]
           /\ RemovalsRan
           /\ ConsumeBroadcast(1, path) = on[1].b

\* C40: OriginNode::remove never fails its assertion: when it runs for a path
\* that has an entry, the broadcast it removes is one of the backups of the
\* entry or its active broadcast.
RemoveNeverPanics ==
    /\ olast.res # "panic"
    /\ \A t \in BagToSet(otasks) :
          LET e == obcast[t.node \o t.path]
          IN e.active # 0 => (e.active = t.b \/ \E i \in DOMAIN e.backup : e.backup[i] = t.b)

\* C40 witness: a broadcast was published twice on one path and closed, and
\* both of its remove tasks have run.
DoublePublishRemoved ==
    /\ Len(ohist) = 2
    /\ ohist[1] = ohist[2]
    /\ otasks = EmptyBag
    /\ olast.op = "remove" /\ olast.res = "done"
    /\ obcast[ohist[1].path].active = 0

\* The prefix lists asked of consume_only when the initial replay is looked at.
ReplayPrefixes == {<<<<"a">>>>, <<<<"a">>, <<"b">>>>}

\* Publishing and closing with consumers created in between.
ReplayNext ==
    \/ \E path \in Paths, b \in Bcasts : PublishBroadcast(1, path, b)
    \/ \E b \in Bcasts : CloseBroadcast(b)
    \/ \E t \in BagToSet(otasks) : RemoveTask(t)
    \/ Consume(1)
    \/ \E prefixes \in ReplayPrefixes : ConsumeOnly(1, prefixes)

SpecReplay == OriginInit /\ [][ReplayNext]_vars

\* C27: the channel of a consumer that consume() or consume_only() has just
\* created holds exactly one event (path, Some(active)) for every path under
\* its scope that has an active broadcast, and none for a path that has no
\* broadcast (any more).
InitialReplay ==
    [][Len(ocons') = Len(ocons) + 1 =>
          LET c  == Len(ocons')
              ev == ocons'[c].events
          IN \A path \in Paths :
                LET got == SelectSeq(ev, LAMBDA e : e.path = path)
                IN /\ (obcast[path].active # 0 /\ \E q \in ocons'[c].scope : HasPrefix(path, q))
                         => got = <<[path |-> path, b |-> obcast[path].active]>>
                   /\ obcast[path].active = 0 => got = <<>>]_vars

\* The nodes a producer handle, a consumer or a remove task holds a Lock of.
HeldNodes ==
    {r.node : r \in UNION {Range(oprod[h].roots) : h \in DOMAIN oprod \ odropped}}
        \cup {r.node : r \in UNION {Range(ocons[c].roots) : c \in DOMAIN ocons}}
        \cup {t.node : t \in BagToSet(otasks)}

\* A node that is referenced, directly or through its parents, still holds
\* the Sender of consumer c in its `consumers`.
SenderAlive(c) ==
    \E p \in onodes : c \in oconsumers[p] /\ \E q \in HeldNodes : HasPrefix(p, q)

\* An OriginProducer handle goes out of scope: it has no Drop, its fields are dropped.
DropProducer(h) ==
    /\ h \in DOMAIN oprod \ odropped
    /\ odropped' = odropped \cup {h}
    /\ olast' = NoOriginCall
    /\ UNCHANGED <<onodes, obcast, oconsumers, bclosed, otasks, oprod, ocons, opublished>>
    /\ UNCHANGED <<ohist, oread>>
    /\ UNCHANGED exceptOrigin

\* OriginConsumer::announced() on consumer c returns: the next event, or
\* None once the channel is empty and every Sender is gone; it blocks otherwise.
Announced(c) ==
    /\ c \in DOMAIN ocons
    /\ IF oread[c] < Len(ocons[c].events)
       THEN /\ oread' = [oread EXCEPT ![c] = @ + 1]
            /\ olast' = [NoOriginCall EXCEPT !.op = "announced", !.res = "Some"]
       ELSE /\ ~SenderAlive(c)
            /\ oread' = oread
            /\ olast' = [NoOriginCall EXCEPT !.op = "announced", !.res = "None"]
    /\ UNCHANGED <<onodes, obcast, oconsumers, bclosed, otasks, oprod, ocons, opublished>>
    /\ UNCHANGED <<ohist, odropped>>
    /\ UNCHANGED exceptOrigin

\* Producer handles publish and are dropped while consumers read.
OriginDropNext ==
    \/ \E h \in 1..MaxProducers, path \in ReplacePaths, b \in Bcasts : PublishBroadcast(h, path, b)
    \/ \E b \in Bcasts : CloseBroadcast(b)
    \/ \E t \in BagToSet(otasks) : RemoveTask(t)
    \/ PublishOnly(1, <<<<"a">>>>)
    \/ \E h \in 1..MaxProducers : Consume(h)
    \/ \E h \in 1..MaxProducers : DropProducer(h)
    \/ \E c \in 1..MaxConsumers : Announced(c)

SpecOriginDrop == OriginInit /\ [][OriginDropNext]_vars

\* C28: once every OriginProducer handle is dropped and the remove tasks have
\* run, no consumer is left with a path whose last event is an announce, and
\* announced() on a consumer that has read all its events returns None.
ProducersGoneEndsStream ==
    (odropped = DOMAIN oprod /\ RemovalsRan) =>
        \A c \in DOMAIN ocons :
            /\ \A path \in Paths :
                  LET ev == EventsFor(c, path)
                  IN ev # <<>> => ev[Len(ev)].b = 0
            /\ oread[c] = Len(ocons[c].events) => ~SenderAlive(c)

----------------------------------------------------------------------------
\* Session::accept: the server side of the handshake.

\* lite::ControlType
ControlTypes == {"Session", "Announce", "Subscribe", "ClientCompatV7", "ServerCompatV7",
                 "ClientCompatV14", "ServerCompatV14"}

\* The version identifiers a client may list: the two lite drafts, the two
\* ietf drafts, and one identifier no family knows.
VersionIds == {"lite-02", "lite-01", "ietf-14", "ietf-07", "unknown"}

\* VERSIONS, in the server's order of preference.
VERSIONS == <<"lite-02", "lite-01", "ietf-14">>

\* lite::Version::try_from(version).is_ok()
LiteTryFrom(version) == version \in {"lite-02", "lite-01"}

\* ietf::Version::try_from(version).is_ok()
IetfTryFrom(version) == version \in {"ietf-07", "ietf-14"}

\* The version lists a ClientSetup may carry.
ClientLists == UNION {[1..k -> VersionIds] : k \in 0..MaxVersions}

\* VERSIONS.contains(v)
VersionsContains(v) == \E i \in DOMAIN VERSIONS : VERSIONS[i] = v

\* The server's first version that the client lists.
FindVersionServerFirst(versions) ==
    LET idx == {i \in DOMAIN VERSIONS : \E j \in DOMAIN versions : versions[j] = VERSIONS[i]}
    IN IF idx = {} THEN "none" ELSE VERSIONS[Min(idx)]

\* client.versions.iter().find(|v| VERSIONS.contains(v)): "none" stands for None.
FindVersion(versions) ==
    LET idx == {i \in DOMAIN versions : VersionsContains(versions[i])}
    IN IF idx = {} THEN "none" ELSE versions[Min(idx)]

\* Session::accept up to the dispatch on the first ControlType.
Accept ==
    /\ apc = "accept"
    /\ IF akind = "ClientCompatV14"
       THEN apc' = "accept_ietf" /\ aresult' = aresult
       ELSE IF akind \in {"Session", "ClientCompatV7"}
       THEN apc' = "accept_lite" /\ aresult' = aresult
       ELSE apc' = "done" /\ aresult' = "UnexpectedStream"
    /\ UNCHANGED <<akind, aversions, awritten, astarted>>
    /\ UNCHANGED exceptAccept

\* The part accept_lite and accept_ietf share once the client setup is
\* decoded: pick the version, write `compat` and the server setup, start
\* the session. A write or the start may fail with a transport error.
AcceptSetup(compat) ==
    LET version == FindVersion(aversions)
        writes  == compat \o <<[msg |-> "ServerSetup", version |-> version]>>
    IN /\ apc' = "done"
       /\ IF version = "none"
          THEN /\ aresult' = "Version"
               /\ UNCHANGED <<awritten, astarted>>
          ELSE \E n \in 0..Len(writes), started \in BOOLEAN :
                 /\ awritten' = SubSeq(writes, 1, n)
                 /\ IF n < Len(writes)
                    THEN aresult' = "Transport" /\ astarted' = NoSession
                    ELSE IF LiteTryFrom(version)
                    THEN /\ astarted' = [family |-> "lite", version |-> version]
                         /\ aresult' = IF started THEN "Ok" ELSE "Transport"
                    ELSE IF IetfTryFrom(version)
                    THEN /\ astarted' = [family |-> "ietf", version |-> version]
                         /\ aresult' = IF started THEN "Ok" ELSE "Transport"
                    ELSE aresult' = "Version" /\ astarted' = NoSession
       /\ UNCHANGED <<akind, aversions>>
       /\ UNCHANGED exceptAccept

\* Session::accept_lite
AcceptLite ==
    /\ apc = "accept_lite"
    /\ AcceptSetup(IF akind = "ClientCompatV7"
                   THEN <<[msg |-> "ServerCompatV7", version |-> "none"]>> ELSE <<>>)

\* Session::accept_ietf
AcceptIetf ==
    /\ apc = "accept_ietf"
    /\ AcceptSetup(<<[msg |-> "ServerCompatV14", version |-> "none"]>>)

\* A client has opened the session stream and written its first
\* ControlType and its ClientSetup.
AcceptInit ==
    /\ akind \in ControlTypes
    /\ aversions \in ClientLists
    /\ AcceptNew
    /\ fsize = 0 /\ FrameNew /\ GroupNew
    /\ TrackParked
    /\ OriginNew
    /\ E2ENew

AcceptNext ==
    \/ Accept
    \/ AcceptLite
    \/ AcceptIetf

SpecAccept == AcceptInit /\ [][AcceptNext]_vars

\* The positions of the client's list that hold a version of VERSIONS.
Supported == {i \in DOMAIN aversions : \E j \in DOMAIN VERSIONS : VERSIONS[j] = aversions[i]}

\* The positions of what the server wrote that hold a server setup.
ServerSetups == {i \in DOMAIN awritten : awritten[i].msg = "ServerSetup"}

\* C9: accept replies with exactly the first version of the client's list
\* that VERSIONS contains and starts the session with it; when the client
\* lists no version of VERSIONS, accept returns Error::Version, has written
\* nothing and has started no session.
AcceptNegotiates ==
    /\ Cardinality(ServerSetups) <= 1
    /\ \A i \in ServerSetups :
          \E k \in Supported : /\ awritten[i].version = aversions[k]
                               /\ \A j \in Supported : k <= j
    /\ astarted # NoSession =>
          \E i \in ServerSetups : awritten[i].version = astarted.version
    /\ aresult = "Ok" => astarted # NoSession
    /\ (apc = "done" /\ aresult # "UnexpectedStream" /\ Supported = {}) =>
          (aresult = "Version" /\ awritten = <<>> /\ astarted = NoSession)

\* accept returned Ok for a client that prefers ietf-14 over lite-02, the
\* reverse of the server's order.
AcceptedClientPreference ==
    /\ aresult = "Ok"
    /\ aversions = <<"ietf-14", "lite-02">>
    /\ astarted = [family |-> "ietf", version |-> "ietf-14"]
    /\ awritten[Len(awritten)] = [msg |-> "ServerSetup", version |-> "ietf-14"]

----------------------------------------------------------------------------
\* Two sessions over a loopback transport. A publishes broadcast "alice" with
\* track "clock": one group with the frames "1" and "2", then the group and
\* the track are closed. B subscribes to the track and reads it.

\* The frames A writes, in order.
ClockFrames == <<"1", "2">>

\* The errors a producer of B can be aborted with.
SessionErrors == Errors \cup {"WrongSize"}

\* The slot of A's only group in the Track section.
ClockGroup == 1

\* A's application: track.append_group().
ClockAppendGroup ==
    /\ Produced = {}
    /\ AppendGroup

\* A's application: group.write_frame(..), GroupState::append_frame.
ClockWriteFrame ==
    /\ gclosed[ClockGroup] = "None"
    /\ Len(aframes) < Len(ClockFrames)
    /\ aframes' = Append(aframes, ClockFrames[Len(aframes) + 1])
    /\ UNCHANGED <<ppc, pseen, sgtask, csub, cbend, cinfo, cdrop, caend, dq, dend,
                   spc, subs, btgroups, btclosed, bframes, bgclosed, betask, rgpc,
                   bpc, bgseen, bindex, bseen, bcancelled>>
    /\ UNCHANGED <<trackVars, exceptE2E>>

\* A's application: group.close(), GroupState::close.
ClockGroupClose ==
    /\ aframes = ClockFrames
    /\ gclosed[ClockGroup] = "None"
    /\ gclosed' = [gclosed EXCEPT ![ClockGroup] = "Ok"]
    /\ UNCHANGED <<texpires, now, tgroups, tnext, tclosed, ginfo, etask, tfault, tlast>>
    /\ UNCHANGED <<e2eVars, exceptE2E>>

\* A's application: track.close(), once the group is closed.
ClockTrackClose ==
    /\ gclosed[ClockGroup] \notin {"Absent", "None"}
    /\ tclosed = "None"
    /\ TrackClose

\* The expire task of A's group (the two steps of its second select! branch).
ClockExpire ==
    \/ ExpireWatch(ClockGroup)
    \/ ExpireTimer(ClockGroup)

\* B's application subscribes to the track: run_broadcast spawns
\* run_subscribe, which registers the track, opens the subscribe stream and
\* writes the Subscribe message. B's reader starts calling next_group.
Subscribe ==
    /\ spc = "idle"
    /\ spc' = "wait_ok"
    /\ subs' = TRUE
    /\ csub' = "sent"
    /\ bpc' = "next_group"
    /\ UNCHANGED <<aframes, ppc, pseen, sgtask, cbend, cinfo, cdrop, caend, dq, dend,
                   btgroups, btclosed, bframes, bgclosed, betask, rgpc,
                   bgseen, bindex, bseen, bcancelled>>
    /\ UNCHANGED <<trackVars, exceptE2E>>

\* What ends when serve_subscribe returns: run_control drops the stream
\* (the Writer resets on Drop) and the serve_group task in `tasks` is dropped
\* with its Writer.
ServeSubscribeReturn ==
    /\ ppc' = "done"
    /\ caend' = "reset"
    /\ IF sgtask.pc \in {"open", "frames"}
       THEN /\ sgtask' = [sgtask EXCEPT !.pc = "dropped"]
            /\ dend' = IF dend = "open" THEN "reset" ELSE dend
       ELSE UNCHANGED <<sgtask, dend>>

\* A: run_control accepts the subscribe stream; recv_subscribe decodes the
\* Subscribe message (or fails when B has reset the stream already) and
\* serve_subscribe writes the Info message.
RecvSubscribe ==
    /\ ppc = "accept"
    /\ csub = "sent"
    /\ \/ /\ csub' = "read"
          /\ ppc' = "serving"
          /\ cinfo' = "sent"
          /\ UNCHANGED <<caend, sgtask, dend>>
       \/ /\ cbend = "reset"
          /\ ServeSubscribeReturn
          /\ UNCHANGED <<csub, cinfo>>
    /\ UNCHANGED <<aframes, pseen, cbend, cdrop, dq,
                   spc, subs, btgroups, btclosed, bframes, bgclosed, betask, rgpc,
                   bpc, bgseen, bindex, bseen, bcancelled>>
    /\ UNCHANGED <<trackVars, exceptE2E>>

\* A: serve_subscribe, first select! branch: TrackConsumer::next_group
\* returned a group that is stored and was not seen; its serve_group task is
\* pushed. An aborted track returns the error instead.
ServeSubscribeGroup ==
    /\ ppc = "serving"
    /\ (tgroups # <<>> /\ ~pseen) \/ tclosed \in Errors
    /\ IF tclosed \in Errors
       THEN /\ ServeSubscribeReturn
            /\ UNCHANGED pseen
       ELSE /\ pseen' = TRUE
            /\ sgtask' = [pc |-> "open", index |-> 0]
            /\ UNCHANGED <<ppc, caend, dend>>
    /\ UNCHANGED <<aframes, csub, cbend, cinfo, cdrop, dq,
                   spc, subs, btgroups, btclosed, bframes, bgclosed, betask, rgpc,
                   bpc, bgseen, bindex, bseen, bcancelled>>
    /\ UNCHANGED <<trackVars, exceptE2E>>

\* A: serve_subscribe, second select! branch: decode_maybe on the subscribe
\* stream returned because B finished or reset its side.
ServeSubscribeUpdate ==
    /\ ppc = "serving"
    /\ cbend \in {"fin", "reset"}
    /\ ServeSubscribeReturn
    /\ UNCHANGED <<aframes, pseen, csub, cbend, cinfo, cdrop, dq,
                   spc, subs, btgroups, btclosed, bframes, bgclosed, betask, rgpc,
                   bpc, bgseen, bindex, bseen, bcancelled>>
    /\ UNCHANGED <<trackVars, exceptE2E>>

\* A: serve_subscribe, third select! branch: the serve_group task returned;
\* an error is reported with a GroupDrop message.
ServeSubscribeTask ==
    /\ ppc = "serving"
    /\ sgtask.pc \in {"ok", "err"}
    /\ sgtask' = [sgtask EXCEPT !.pc = "reaped"]
    /\ cdrop' = IF sgtask.pc = "err" THEN "sent" ELSE cdrop
    /\ UNCHANGED <<aframes, ppc, pseen, csub, cbend, cinfo, caend, dq, dend,
                   spc, subs, btgroups, btclosed, bframes, bgclosed, betask, rgpc,
                   bpc, bgseen, bindex, bseen, bcancelled>>
    /\ UNCHANGED <<trackVars, exceptE2E>>

\* A: serve_group opens the group stream and writes the Group header.
ServeGroupOpen ==
    /\ sgtask.pc = "open"
    /\ sgtask' = [sgtask EXCEPT !.pc = "frames"]
    /\ dend' = "open"
    /\ dq' = <<"group">>
    /\ UNCHANGED <<aframes, ppc, pseen, csub, cbend, cinfo, cdrop, caend,
                   spc, subs, btgroups, btclosed, bframes, bgclosed, betask, rgpc,
                   bpc, bgseen, bindex, bseen, bcancelled>>
    /\ UNCHANGED <<trackVars, exceptE2E>>

\* A: serve_group_inner, one round of its loop. next_frame hands out a
\* stored frame, and reading it fails when the group was aborted; past the
\* last frame it ends with the way the group was closed. On return the
\* Writer is dropped (or closed by or_close), which resets the stream.
ServeGroupFrame ==
    /\ sgtask.pc = "frames"
    /\ IF sgtask.index < Len(aframes)
       THEN IF gclosed[ClockGroup] \in Errors
            THEN /\ sgtask' = [sgtask EXCEPT !.pc = "err"]
                 /\ dend' = "reset"
                 /\ UNCHANGED dq
            ELSE /\ sgtask' = [sgtask EXCEPT !.index = @ + 1]
                 /\ dq' = Append(dq, aframes[sgtask.index + 1])
                 /\ UNCHANGED dend
       ELSE /\ gclosed[ClockGroup] # "None"
            /\ sgtask' = [sgtask EXCEPT !.pc =
                             IF gclosed[ClockGroup] = "Ok" THEN "ok" ELSE "err"]
            /\ dend' = "reset"
            /\ UNCHANGED dq
    /\ UNCHANGED <<aframes, ppc, pseen, csub, cbend, cinfo, cdrop, caend,
                   spc, subs, btgroups, btclosed, bframes, bgclosed, betask, rgpc,
                   bpc, bgseen, bindex, bseen, bcancelled>>
    /\ UNCHANGED <<trackVars, exceptE2E>>

\* B: run_track_stream decodes the SubscribeOk.
RunTrackStream ==
    /\ spc = "wait_ok"
    /\ cinfo = "sent"
    /\ cinfo' = "read"
    /\ spc' = "wait_fin"
    /\ UNCHANGED <<aframes, ppc, pseen, sgtask, csub, cbend, cdrop, caend, dq, dend,
                   subs, btgroups, btclosed, bframes, bgclosed, betask, rgpc,
                   bpc, bgseen, bindex, bseen, bcancelled>>
    /\ UNCHANGED <<trackVars, exceptE2E>>

\* How run_subscribe's select! can resolve now: the set of results.
\* track.unused() gives Cancel; the stream being reset gives a transport
\* error; a message where the end of the stream is expected gives WrongSize;
\* the end of the stream gives Ok.
RunSubscribeResults ==
    (IF bcancelled THEN {"Cancel"} ELSE {})
      \cup (IF caend = "reset" THEN {"Transport"} ELSE {})
      \cup (IF spc = "wait_fin" /\ cdrop = "sent" THEN {"WrongSize"} ELSE {})
      \cup (IF spc = "wait_fin" /\ cdrop = "none" /\ caend = "fin" THEN {"Ok"} ELSE {})

\* B: run_subscribe returns: the track is finished or aborted, the stream is
\* finished or reset, and the subscription is removed from `subscribes`.
RunSubscribeEnd ==
    /\ spc \in {"wait_ok", "wait_fin"}
    /\ \E res \in RunSubscribeResults :
          /\ btclosed' = IF res = "Ok"
                         THEN (IF btclosed \in SessionErrors THEN btclosed ELSE "Ok")
                         ELSE IF res \in {"Cancel", "Transport"} THEN "Cancel" ELSE res
          /\ cbend' = IF res = "Ok" THEN "fin" ELSE "reset"
    /\ spc' = "done"
    /\ subs' = FALSE
    /\ UNCHANGED <<aframes, ppc, pseen, sgtask, csub, cinfo, cdrop, caend, dq, dend,
                   btgroups, bframes, bgclosed, betask, rgpc,
                   bpc, bgseen, bindex, bseen, bcancelled>>
    /\ UNCHANGED <<trackVars, exceptE2E>>

\* What a read of the group stream can return to B now: the next item A
\* wrote, or the reset (read_buf checks the reset code before its buffer, so
\* a reset that has arrived hides what was not read yet).
GroupStreamReads ==
    (IF dq # <<>> THEN {"item"} ELSE {})
      \cup (IF dend = "reset" THEN {"reset"} ELSE {})

\* B: run_uni accepts the group stream and recv_group decodes the Group
\* header, looks the subscription up and creates the group in its track.
RecvGroup ==
    /\ rgpc = "accept"
    /\ dend # "none"
    /\ \E read \in GroupStreamReads :
          IF read = "item" /\ subs /\ btclosed = "None"
          THEN /\ dq' = Tail(dq)
               /\ rgpc' = "frames"
               /\ btgroups' = Append(btgroups, 0)
               /\ bgclosed' = "None"
               /\ betask' = "wait"
          ELSE /\ rgpc' = "done"
               /\ dq' = IF read = "item" THEN Tail(dq) ELSE dq
               /\ UNCHANGED <<btgroups, bgclosed, betask>>
    /\ UNCHANGED <<aframes, ppc, pseen, sgtask, csub, cbend, cinfo, cdrop, caend, dend,
                   spc, subs, btclosed, bframes, bpc, bgseen, bindex, bseen, bcancelled>>
    /\ UNCHANGED <<trackVars, exceptE2E>>

\* B: run_group, one round of its loop: a frame is read and stored, or the
\* stream ended: finished ends the group with Ok, a reset aborts it with Cancel.
RunGroup ==
    /\ rgpc = "frames"
    /\ \E read \in GroupStreamReads \cup (IF dq = <<>> /\ dend = "fin" THEN {"fin"} ELSE {}) :
          IF read = "item" /\ bgclosed = "None"
          THEN /\ dq' = Tail(dq)
               /\ bframes' = Append(bframes, Head(dq))
               /\ UNCHANGED <<rgpc, bgclosed>>
          ELSE /\ rgpc' = "done"
               /\ bgclosed' = IF read = "fin" /\ bgclosed = "None" THEN "Ok"
                              ELSE IF read = "reset" THEN "Cancel"
                              ELSE bgclosed
               /\ UNCHANGED <<dq, bframes>>
    /\ UNCHANGED <<aframes, ppc, pseen, sgtask, csub, cbend, cinfo, cdrop, caend, dend,
                   spc, subs, btgroups, btclosed, betask,
                   bpc, bgseen, bindex, bseen, bcancelled>>
    /\ UNCHANGED <<trackVars, exceptE2E>>

\* B: the expire task of the received group: the group was aborted, or the
\* track was closed or aborted (B's track has expires = 0, so the sleep is
\* over at once); the group is aborted and removed from the track.
SubscriberExpire ==
    /\ betask = "wait"
    /\ bgclosed \in SessionErrors \/ btclosed # "None"
    /\ betask' = "done"
    /\ bgclosed' = IF bgclosed \in SessionErrors THEN bgclosed
                   ELSE IF btclosed = "Ok" THEN "Expired" ELSE btclosed
    /\ btgroups' = <<>>
    /\ UNCHANGED <<aframes, ppc, pseen, sgtask, csub, cbend, cinfo, cdrop, caend, dq, dend,
                   spc, subs, btclosed, bframes, rgpc,
                   bpc, bgseen, bindex, bseen, bcancelled>>
    /\ UNCHANGED <<trackVars, exceptE2E>>

\* B's reader: TrackConsumer::next_group returns.
ReaderNextGroup ==
    /\ bpc = "next_group"
    /\ (btgroups # <<>> /\ ~bgseen) \/ btclosed # "None"
    /\ IF btclosed \in SessionErrors
       THEN /\ bseen' = Append(bseen, "Err")
            /\ bpc' = "end"
            /\ UNCHANGED <<bgseen, bindex>>
       ELSE IF btgroups # <<>> /\ ~bgseen
       THEN /\ bgseen' = TRUE
            /\ bindex' = 0
            /\ bpc' = "read"
            /\ UNCHANGED bseen
       ELSE /\ bseen' = Append(bseen, "None")
            /\ bpc' = "end"
            /\ UNCHANGED <<bgseen, bindex>>
    /\ UNCHANGED <<aframes, ppc, pseen, sgtask, csub, cbend, cinfo, cdrop, caend, dq, dend,
                   spc, subs, btgroups, btclosed, bframes, bgclosed, betask, rgpc,
                   bcancelled>>
    /\ UNCHANGED <<trackVars, exceptE2E>>

\* B's reader: GroupConsumer::read_frame returns: a stored frame (an error
\* when the group was aborted, which aborts its frames), or the way the
\* group was closed; then the reader goes back to next_group.
ReaderReadFrame ==
    /\ bpc = "read"
    /\ bindex < Len(bframes) \/ bgclosed # "None"
    /\ IF bgclosed \in SessionErrors
       THEN /\ bseen' = Append(bseen, "Err")
            /\ bpc' = "next_group"
            /\ UNCHANGED bindex
       ELSE IF bindex < Len(bframes)
       THEN /\ bseen' = Append(bseen, bframes[bindex + 1])
            /\ bindex' = bindex + 1
            /\ UNCHANGED bpc
       ELSE /\ bpc' = "next_group"
            /\ UNCHANGED <<bseen, bindex>>
    /\ UNCHANGED <<aframes, ppc, pseen, sgtask, csub, cbend, cinfo, cdrop, caend, dq, dend,
                   spc, subs, btgroups, btclosed, bframes, bgclosed, betask, rgpc,
                   bgseen, bcancelled>>
    /\ UNCHANGED <<trackVars, exceptE2E>>

\* B's reader gives up and drops its TrackConsumer: track.unused() resolves.
ReaderCancel ==
    /\ bpc \in {"next_group", "read"}
    /\ bpc' = "end"
    /\ bcancelled' = TRUE
    /\ UNCHANGED <<aframes, ppc, pseen, sgtask, csub, cbend, cinfo, cdrop, caend, dq, dend,
                   spc, subs, btgroups, btclosed, bframes, bgclosed, betask, rgpc,
                   bgseen, bindex, bseen>>
    /\ UNCHANGED <<trackVars, exceptE2E>>

\* Track::new("clock") on both sides: expires is zero.
E2EInit ==
    /\ texpires = 0
    /\ tlimit = MaxGroups
    /\ TrackNew
    /\ E2ENew
    /\ fsize = 0 /\ FrameNew /\ GroupNew
    /\ OriginNew
    /\ AcceptParked

\* Every step the two sessions and A's application take by themselves.
E2ERun ==
    \/ ClockAppendGroup
    \/ ClockWriteFrame
    \/ ClockGroupClose
    \/ ClockTrackClose
    \/ ClockExpire
    \/ Subscribe
    \/ RecvSubscribe
    \/ ServeSubscribeGroup
    \/ ServeSubscribeUpdate
    \/ ServeSubscribeTask
    \/ ServeGroupOpen
    \/ ServeGroupFrame
    \/ RunTrackStream
    \/ RunSubscribeEnd
    \/ RecvGroup
    \/ RunGroup
    \/ SubscriberExpire
    \/ ReaderNextGroup
    \/ ReaderReadFrame

E2ENext ==
    \/ E2ERun
    \/ ReaderCancel

\* Every task that can run is run eventually; B's reader is free to never
\* give up.
SpecE2E == E2EInit /\ [][E2ENext]_vars /\ WF_vars(E2ERun)

\* What B's reader is to observe.
ClockExpected == <<"1", "2", "None">>

\* C10: as long as B's reader does not give up, it is handed "1", then "2",
\* and then its next_group call returns None, whatever the interleaving of
\* the tasks of the two sessions (bseen is everything the reader was handed,
\* in order).
ClockDelivered == <>(bcancelled \/ bseen = ClockExpected)

----------------------------------------------------------------------------
\* Subscriber::run_broadcast: the requests for one track name of an announced
\* broadcast, made by MaxRequests callers that hold its BroadcastConsumer.

\* BroadcastConsumer::request(name) is called by caller k: the first call for
\* the name creates the track and queues its producer for the broadcast's
\* producer side, a later call finds the entry of the name.
Request(k) ==
    /\ rq.calls[k] = "idle"
    /\ rq' = IF rq.pending # 0
             THEN [rq EXCEPT !.calls[k] = "waiting"]
             ELSE [rq EXCEPT !.calls[k] = "waiting",
                             !.pending = Len(rq.tracks) + 1,
                             !.tracks = Append(@, "None"),
                             !.queue = Append(@, Len(rq.tracks) + 1)]
    /\ UNCHANGED <<sv, exceptSession>>

\* The request() of caller k resolves once the producer side has taken the
\* track: it returns the TrackConsumer of the entry.
RequestResolve(k) ==
    /\ rq.calls[k] = "waiting"
    /\ rq.pending \in rq.served
    /\ rq' = [rq EXCEPT !.calls[k] = "returned", !.got[k] = rq.pending]
    /\ UNCHANGED <<sv, exceptSession>>

\* The same with a second task spawned for the request.
SpawnedTwice(id, track) ==
    <<[id |-> id, track |-> track, pc |-> "start"],
      [id |-> id, track |-> track, pc |-> "start"]>>

\* The tasks run_broadcast spawns for one request: one run_subscribe.
Spawned(id, track) == <<[id |-> id, track |-> track, pc |-> "start"]>>

\* run_broadcast, select!: broadcast.request() returned the next requested
\* TrackProducer; an id is drawn and run_subscribe is spawned.
RunBroadcastRequest ==
    /\ rq.pc = "loop"
    /\ rq.queue # <<>>
    /\ rq' = [rq EXCEPT !.queue = Tail(@),
                        !.served = @ \cup {Head(rq.queue)},
                        !.asked = @ + 1,
                        !.next_id = @ + 1,
                        !.tasks = @ \o Spawned(rq.next_id, Head(rq.queue))]
    /\ UNCHANGED <<sv, exceptSession>>

\* run_broadcast, select!: session.closed() resolved; the loop is left and
\* the broadcast is removed from the lookup. (broadcast.unused() cannot
\* resolve while the callers hold the BroadcastConsumer.)
RunBroadcastBreak ==
    /\ rq.pc = "loop"
    /\ rq.closed
    /\ rq' = [rq EXCEPT !.pc = "done", !.registered = FALSE]
    /\ UNCHANGED <<sv, exceptSession>>

\* TrackProducer::abort / finish on track t of the request model.
RequestTrackEnd(tracks, t, res) ==
    [tracks EXCEPT ![t] = IF res = "Ok" THEN (IF @ = "None" THEN "Ok" ELSE @)
                          ELSE IF res = "Transport" THEN "Cancel" ELSE res]

\* run_subscribe of task i starts: the track is stored under its id, and
\* run_track opens a stream and writes the Subscribe message; on a closed
\* session the open fails, the track is aborted and the id is removed.
RunSubscribeStart(i) ==
    /\ i \in DOMAIN rq.tasks
    /\ rq.tasks[i].pc = "start"
    /\ rq' = IF rq.closed
             THEN [rq EXCEPT !.tasks[i].pc = "done",
                             !.tracks = RequestTrackEnd(@, rq.tasks[i].track, "Transport"),
                             !.subscribes = @ \ {rq.tasks[i].id}]
             ELSE [rq EXCEPT !.tasks[i].pc = "wait",
                             !.subscribes = @ \cup {rq.tasks[i].id},
                             !.sent = Append(@, [id |-> rq.tasks[i].id,
                                                 track |-> rq.tasks[i].track])]
    /\ UNCHANGED <<sv, exceptSession>>

\* run_subscribe of task i returns: the peer finished the stream (Ok), reset
\* it (NotFound stands for the peer's error) or the session went away; the
\* track is finished or aborted and the id is removed from `subscribes`.
RunSubscribeReturn(i) ==
    /\ i \in DOMAIN rq.tasks
    /\ rq.tasks[i].pc = "wait"
    /\ \E res \in (IF rq.closed THEN {"Transport"} ELSE {"Ok", "NotFound"}) :
          rq' = [rq EXCEPT !.tasks[i].pc = "done",
                           !.tracks = RequestTrackEnd(@, rq.tasks[i].track, res),
                           !.subscribes = @ \ {rq.tasks[i].id}]
    /\ UNCHANGED <<sv, exceptSession>>

\* The peer or the application closes the session.
RequestSessionClosed ==
    /\ ~rq.closed
    /\ rq' = [rq EXCEPT !.closed = TRUE]
    /\ UNCHANGED <<sv, exceptSession>>

RequestInit ==
    /\ OriginNew
    /\ fsize = 0 /\ FrameNew /\ GroupNew
    /\ TrackParked
    /\ AcceptParked
    /\ E2ENew

RequestNext ==
    \/ \E k \in 1..MaxRequests : Request(k)
    \/ \E k \in 1..MaxRequests : RequestResolve(k)
    \/ RunBroadcastRequest
    \/ RunBroadcastBreak
    \/ \E i \in 1..MaxRequests : RunSubscribeStart(i)
    \/ \E i \in 1..MaxRequests : RunSubscribeReturn(i)
    \/ RequestSessionClosed

SpecRequest == RequestInit /\ [][RequestNext]_vars

\* The callers whose request() has returned.
Resolved == {k \in 1..MaxRequests : rq.calls[k] = "returned"}

\* C29: the request() calls for the one track name all return the same
\* track, the producer side is handed the track once (and was handed it when
\* a call has returned), and at most one Subscribe is written to the peer.
RequestsShareOneTrack ==
    /\ \A j, k \in Resolved : rq.got[j] = rq.got[k]
    /\ rq.asked <= 1
    /\ Resolved # {} => rq.asked = 1
    /\ Len(rq.sent) <= 1

\* C29 witness: every caller has its track, and the one Subscribe was sent.
AllRequestsResolved ==
    /\ Resolved = 1..MaxRequests
    /\ Len(rq.tracks) = 1
    /\ Len(rq.sent) = 1

----------------------------------------------------------------------------
\* Publisher::serve_subscribe over a track that receives MaxServed groups.

\* The errors a group or the track can be aborted with.
ServeErrors == {"Cancel", "Expired"}

\* The publishing application appends the next group to the track.
ServeArrive ==
    /\ sv.track = "None"
    /\ sv.arrived < MaxServed
    /\ sv' = [sv EXCEPT !.arrived = @ + 1, !.groups[sv.arrived + 1] = "None"]
    /\ UNCHANGED <<rq, exceptSession>>

\* The application closes group g.
ServeGroupClose(g) ==
    /\ sv.groups[g] = "None"
    /\ sv' = [sv EXCEPT !.groups[g] = "Ok"]
    /\ UNCHANGED <<rq, exceptSession>>

\* Group g is aborted by the application or by its expiry.
ServeGroupAbort(g, err) ==
    /\ sv.groups[g] \in {"None", "Ok"}
    /\ sv' = [sv EXCEPT !.groups[g] = err]
    /\ UNCHANGED <<rq, exceptSession>>

\* The application aborts the track.
ServeTrackAbort(err) ==
    /\ sv.track = "None"
    /\ sv' = [sv EXCEPT !.track = err]
    /\ UNCHANGED <<rq, exceptSession>>

\* The subscriber finishes or resets its side of the subscribe stream.
ServePeerEnds(how) ==
    /\ sv.peer = "open"
    /\ sv' = [sv EXCEPT !.peer = how]
    /\ UNCHANGED <<rq, exceptSession>>

\* The session is closed by the peer or the application.
ServeSessionClosed ==
    /\ sv.session = "open"
    /\ sv' = [sv EXCEPT !.session = "closed"]
    /\ UNCHANGED <<rq, exceptSession>>

\* serve_subscribe returns: run_control aborts or drops the subscribe stream,
\* and the serve_group tasks still in `tasks` are dropped with their Writers.
ServeReturned(state) ==
    [state EXCEPT !.pc = "done",
                  !.writer = "reset",
                  !.tasks = [g \in 1..MaxServed |->
                                IF state.tasks[g] \in {"open", "frames"} THEN "dropped"
                                ELSE state.tasks[g]],
                  !.streams = [g \in 1..MaxServed |->
                                  IF state.streams[g] = "open" THEN "reset"
                                  ELSE state.streams[g]]]

\* serve_subscribe, select!: track.next_group() returned the next group and
\* its serve_group task is pushed; an aborted track returns its error.
ServeNextGroup ==
    /\ sv.pc = "serving"
    /\ sv.taken < sv.arrived \/ sv.track \in ServeErrors
    /\ sv' = IF sv.track \in ServeErrors
             THEN ServeReturned(sv)
             ELSE [sv EXCEPT !.taken = @ + 1, !.tasks[sv.taken + 1] = "open"]
    /\ UNCHANGED <<rq, exceptSession>>

\* serve_subscribe, select!: decode_maybe returned because the subscriber
\* ended its side of the stream.
ServeUpdate ==
    /\ sv.pc = "serving"
    /\ sv.peer # "open"
    /\ sv' = ServeReturned(sv)
    /\ UNCHANGED <<rq, exceptSession>>

\* The same, with the error of a group ending the subscription.
AfterTaskStrict(res) == IF res = "ok" THEN "serving" ELSE "done"

\* serve_subscribe after tasks.next() gave the result of a serve_group task:
\* the loop goes on, whatever the result.
AfterTask(res) == "serving"

\* serve_subscribe, select!: tasks.next() returned the result of the task of
\* group g; an error is written as a GroupDrop with its code, and only a
\* failure to write it ends the subscription.
ServeTaskDone(g) ==
    /\ sv.pc = "serving"
    /\ sv.tasks[g] \in {"ok"} \cup ServeErrors \cup {"Transport"}
    /\ sv' = IF sv.tasks[g] # "ok" /\ sv.session = "closed"
             THEN ServeReturned([sv EXCEPT !.tasks[g] = "reaped"])
             ELSE IF AfterTask(sv.tasks[g]) = "serving"
             THEN [sv EXCEPT !.tasks[g] = "reaped",
                             !.drops = IF sv.tasks[g] = "ok" THEN @
                                       ELSE Append(@, [sequence |-> g, code |-> sv.tasks[g]])]
             ELSE ServeReturned([sv EXCEPT !.tasks[g] = "reaped"])
    /\ UNCHANGED <<rq, exceptSession>>

\* OrClose::or_close: the stream is closed with the code of the error.
OrClose(err) == err

\* serve_group of group g opens its stream and writes the Group header; on a
\* closed session the open fails.
ServeGroupStart(g) ==
    /\ sv.tasks[g] = "open"
    /\ sv' = IF sv.session = "closed"
             THEN [sv EXCEPT !.tasks[g] = "Transport"]
             ELSE [sv EXCEPT !.tasks[g] = "frames", !.streams[g] = "open"]
    /\ UNCHANGED <<rq, exceptSession>>

\* serve_group_inner of group g returns: Ok past the last frame of a closed
\* group (the Writer is dropped, the finish is commented out), the error of an
\* aborted group or of a closed session, with which or_close closes the stream.
ServeGroupEnd(g) ==
    /\ sv.tasks[g] = "frames"
    /\ \E res \in (IF sv.groups[g] = "None" THEN {} ELSE {sv.groups[g]})
                     \cup (IF sv.session = "closed" THEN {"Transport"} ELSE {}) :
          sv' = IF res = "Ok"
                THEN [sv EXCEPT !.tasks[g] = "ok", !.streams[g] = "reset"]
                ELSE [sv EXCEPT !.tasks[g] = res, !.streams[g] = OrClose(res)]
    /\ UNCHANGED <<rq, exceptSession>>

ServeNext ==
    \/ ServeArrive
    \/ \E g \in 1..MaxServed : ServeGroupClose(g)
    \/ \E g \in 1..MaxServed, err \in ServeErrors : ServeGroupAbort(g, err)
    \/ \E err \in ServeErrors : ServeTrackAbort(err)
    \/ \E how \in {"fin", "reset"} : ServePeerEnds(how)
    \/ ServeSessionClosed
    \/ ServeNextGroup
    \/ ServeUpdate
    \/ \E g \in 1..MaxServed : ServeTaskDone(g)
    \/ \E g \in 1..MaxServed : ServeGroupStart(g)
    \/ \E g \in 1..MaxServed : ServeGroupEnd(g)

SpecServe == RequestInit /\ [][ServeNext]_vars

\* The serve_group task of group g has failed in this step.
GroupFails(g) ==
    /\ sv.tasks[g] \in {"open", "frames"}
    /\ sv'.tasks[g] \in ServeErrors \cup {"Transport"}

\* C30: when the serve_group task of one group fails, the stream of that
\* group (if it was opened) is closed with the code of the error and nothing
\* else changes; when serve_subscribe takes the failure while the session is
\* open it writes a GroupDrop and stays in its loop; and while it is in its
\* loop it takes every group that arrives on the open track.
FailedGroupOnlyDrops ==
    /\ [][\A g \in 1..MaxServed :
             GroupFails(g) =>
                 /\ sv.streams[g] = "open" => sv'.streams[g] = sv'.tasks[g]
                 /\ \A h \in 1..MaxServed \ {g} :
                       sv'.streams[h] = sv.streams[h] /\ sv'.tasks[h] = sv.tasks[h]
                 /\ sv'.pc = sv.pc /\ sv'.session = sv.session
                 /\ sv'.writer = sv.writer /\ sv'.drops = sv.drops]_vars
    /\ [][\A g \in 1..MaxServed :
             (/\ sv.pc = "serving" /\ sv.session = "open"
              /\ sv.tasks[g] \in ServeErrors /\ sv'.tasks[g] = "reaped")
                 => /\ sv'.pc = "serving" /\ sv'.session = "open" /\ sv'.writer = "open"
                    /\ sv'.drops = Append(sv.drops, [sequence |-> g, code |-> sv.tasks[g]])
                    /\ sv'.streams = sv.streams]_vars
    /\ []((sv.pc = "serving" /\ sv.track = "None" /\ sv.taken < sv.arrived)
             => ENABLED ServeNextGroup)

\* C30 witness: the first group failed and was reported, and the second
\* group was served to its end on its own stream afterwards.
LaterGroupServed ==
    /\ sv.pc = "serving" /\ sv.session = "open"
    /\ sv.streams[1] \in ServeErrors
    /\ sv.drops = <<[sequence |-> 1, code |-> sv.streams[1]]>>
    /\ sv.groups[2] = "Ok"
    /\ sv.tasks[2] = "reaped"


----------------------------------------------------------------------------
\* Subscriber::run_uni: the data streams B accepts and the subscriptions
\* their group headers name.

\* The subscribe ids a group header can carry: the ones B hands out, and one
\* it never hands out.
SubscribeIds == 0..MaxSubscribes

\* run_broadcast takes the next id and spawns run_subscribe, which inserts
\* the track into `subscribes`.
RunSubscribeInsert ==
    /\ ru.next_id < MaxSubscribes
    /\ ru' = [ru EXCEPT !.next_id = @ + 1, !.subscribes = @ \cup {ru.next_id}]
    /\ UNCHANGED <<hs, wire, ctl, exceptProto>>

\* run_subscribe returned (the track is aborted or finished by then) and the
\* spawned task removes the id from `subscribes`.
RunSubscribeRemove(id) ==
    /\ id \in ru.subscribes
    /\ ru' = [ru EXCEPT !.subscribes = @ \ {id}]
    /\ UNCHANGED <<hs, wire, ctl, exceptProto>>

\* run_uni, one round of its loop: Reader::accept returns a stream, whose
\* task is spawned, or an error, which ends run_uni. The peer chose the
\* subscribe id of the header; the sequence is the one of the stream.
RunUni(id, ok) ==
    /\ ru.run_uni = "accept"
    /\ IF ok
       THEN /\ Len(ru.streams) < MaxUniStreams
            /\ ru' = [ru EXCEPT !.streams = Append(@,
                        [subscribe |-> id, sequence |-> Len(ru.streams) + 1,
                         pc |-> "spawned", err |-> "None", seen |-> 0])]
       ELSE ru' = [ru EXCEPT !.run_uni = "failed"]
    /\ UNCHANGED <<hs, wire, ctl, exceptProto>>

\* Mutant of SubsGet: every id finds a track.
SubsGetAny(id) == TRUE

\* subs.get_mut(&group.subscribe) finds a track.
SubsGet(id) == id \in ru.subscribes

\* A group of the track with a larger sequence was created before.
NewerCreated(id, seq) ==
    \E i \in DOMAIN ru.groups :
        ru.groups[i].subscribe = id /\ ru.groups[i].sequence > seq

\* run_uni_stream on stream s up to the select! of recv_group: the stream
\* type and the group header are decoded (or the read fails), the
\* subscription is looked up and the group is created in its track; an
\* error of recv_group aborts the stream. create_group can refuse a group
\* that is older than one that is still stored.
RunUniStream(s, read, stored) ==
    /\ s \in DOMAIN ru.streams
    /\ ru.streams[s].pc = "spawned"
    /\ LET st == ru.streams[s]
           res == IF read = "reset" THEN "Transport"
                  ELSE IF ~SubsGet(st.subscribe) THEN "Cancel"
                  ELSE IF stored /\ NewerCreated(st.subscribe, st.sequence) THEN "Old"
                  ELSE "Ok"
       IN IF res = "Ok"
          THEN ru' = [ru EXCEPT !.streams[s].pc = "frames",
                                !.groups = Append(@, [subscribe |-> st.subscribe,
                                                      sequence |-> st.sequence,
                                                      stream |-> s])]
          ELSE ru' = [ru EXCEPT !.streams[s].pc = "aborted",
                                !.streams[s].err = res,
                                !.streams[s].seen = Len(ru.groups)]
    /\ UNCHANGED <<hs, wire, ctl, exceptProto>>

\* recv_group on stream s after its select!: the group is finished or
\* aborted, and run_uni_stream returns Ok either way.
RecvGroupEnd(s) ==
    /\ s \in DOMAIN ru.streams
    /\ ru.streams[s].pc = "frames"
    /\ ru' = [ru EXCEPT !.streams[s].pc = "done"]
    /\ UNCHANGED <<hs, wire, ctl, exceptProto>>

RunUniNext ==
    \/ RunSubscribeInsert
    \/ \E id \in SubscribeIds : RunSubscribeRemove(id)
    \/ \E id \in SubscribeIds, ok \in BOOLEAN : RunUni(id, ok)
    \/ \E s \in 1..MaxUniStreams, read \in {"header", "reset"}, stored \in BOOLEAN :
          RunUniStream(s, read, stored)
    \/ \E s \in 1..MaxUniStreams : RecvGroupEnd(s)

SpecUni == RequestInit /\ [][RunUniNext]_vars

\* The task of stream s gets past the group header in this step.
HeaderHandled(s) ==
    /\ s \in DOMAIN ru.streams
    /\ ru.streams[s].pc = "spawned"
    /\ ru'.streams[s].pc # "spawned"

\* C39: a data stream whose group header names a subscribe id that is not in
\* `subscribes` is aborted and nothing else happens: no group is created,
\* every other stream and the subscriptions stay as they are, and run_uni
\* goes on accepting.
UnknownSubscribeAbortsStream ==
    [][\A s \in 1..MaxUniStreams :
          (HeaderHandled(s) /\ ru.streams[s].subscribe \notin ru.subscribes)
             => /\ ru'.streams[s].pc = "aborted"
                /\ ru'.groups = ru.groups
                /\ \A t \in DOMAIN ru.streams \ {s} : ru'.streams[t] = ru.streams[t]
                /\ ru'.subscribes = ru.subscribes
                /\ ru'.next_id = ru.next_id
                /\ ru'.run_uni = ru.run_uni]_vars

\* C39 witness: a stream that named an ended subscription was aborted with
\* Cancel, and a stream accepted after it has created its group since.
LaterStreamServed ==
    \E s, t \in DOMAIN ru.streams :
        /\ s < t
        /\ ru.streams[s].pc = "aborted" /\ ru.streams[s].err = "Cancel"
        /\ ru.streams[s].subscribe < ru.next_id
        /\ ru.run_uni = "accept"
        /\ \E i \in DOMAIN ru.groups :
              i > ru.streams[s].seen /\ ru.groups[i].stream = t


----------------------------------------------------------------------------
\* Session::connect, against Session::accept or against a foreign server.

\* Encode for lite::ControlType: the value on the wire.
ControlTypeCode(t) ==
    CASE t = "Session" -> 0
      [] t = "Announce" -> 1
      [] t = "Subscribe" -> 2
      [] t = "ClientCompatV14" -> 32
      [] t = "ServerCompatV14" -> 33
      [] t = "ClientCompatV7" -> 64
      [] t = "ServerCompatV7" -> 65
      [] OTHER -> -1

\* Mutant of ControlTypeDecode: both server compat values are read as
\* ServerCompatV14.
ControlTypeDecodeLoose(n) ==
    CASE n = 0 -> "Session"
      [] n = 1 -> "Announce"
      [] n = 2 -> "Subscribe"
      [] n = 32 -> "ClientCompatV14"
      [] n = 33 -> "ServerCompatV14"
      [] n = 64 -> "ClientCompatV7"
      [] n = 65 -> "ServerCompatV14"
      [] OTHER -> "InvalidMessage"

\* Decode for lite::ControlType; "InvalidMessage" stands for the error.
ControlTypeDecode(n) ==
    CASE n = 0 -> "Session"
      [] n = 1 -> "Announce"
      [] n = 2 -> "Subscribe"
      [] n = 32 -> "ClientCompatV14"
      [] n = 33 -> "ServerCompatV14"
      [] n = 64 -> "ClientCompatV7"
      [] n = 65 -> "ServerCompatV7"
      [] OTHER -> "InvalidMessage"

\* The first values a peer may write: the seven of ControlType and one that
\* is none of them.
FirstValues == {0, 1, 2, 5, 32, 33, 64, 65}

\* The version lists of the foreign clients.
ForeignLists == {<<>>, <<"unknown">>, <<"lite-01">>, <<"ietf-14", "lite-02">>}

\* A client that is not Session::connect opens the session stream and writes
\* its first value and its client setup.
ForeignClient(code, versions) ==
    /\ hs.client = "none"
    /\ ControlTypeDecode(code) # "InvalidMessage"
    /\ hs' = [hs EXCEPT !.client = "foreign"]
    /\ akind' = ControlTypeDecode(code)
    /\ aversions' = versions
    /\ UNCHANGED <<apc, awritten, astarted, aresult>>
    /\ UNCHANGED <<ru, wire, ctl>>
    /\ UNCHANGED <<frameVars, frameReadVars, groupVars, trackVars, readerVars, cloneVars,
                   originVars, e2eVars, rq, sv>>

\* Session::connect up to its first read: the stream is opened and
\* ClientCompatV14 and the client setup with VERSIONS are written, unless
\* the transport fails. With `own` the stream reaches Session::accept.
Connect(own, ok) ==
    /\ hs.pc = "new"
    /\ own => hs.client = "none"
    /\ IF ok
       THEN /\ hs' = [hs EXCEPT !.pc = "wait",
                                !.peer = IF own THEN "accept" ELSE "foreign",
                                !.client = IF own THEN "own" ELSE @,
                                !.offered = VERSIONS]
            /\ IF own
               THEN /\ akind' = ControlTypeDecode(ControlTypeCode("ClientCompatV14"))
                    /\ aversions' = VERSIONS
               ELSE UNCHANGED <<akind, aversions>>
       ELSE /\ hs' = [hs EXCEPT !.pc = "done", !.result = "Transport"]
            /\ UNCHANGED <<akind, aversions>>
    /\ UNCHANGED <<apc, awritten, astarted, aresult>>
    /\ UNCHANGED <<ru, wire, ctl>>
    /\ UNCHANGED <<frameVars, frameReadVars, groupVars, trackVars, readerVars, cloneVars,
                   originVars, e2eVars, rq, sv>>

\* A server that is not Session::accept replies with a first value and a
\* server setup that names one version.
ForeignReply(code, version) ==
    /\ hs.pc = "wait"
    /\ hs.peer = "foreign"
    /\ hs.reply = <<>>
    /\ hs' = [hs EXCEPT !.reply = <<code, version>>]
    /\ UNCHANGED <<ru, wire, ctl, exceptProto>>

\* Session::accept and its two branches, once a client has written.
ServerAccept ==
    /\ hs.client # "none"
    /\ \/ Accept
       \/ AcceptLite
       \/ AcceptIetf

\* What Session::accept has put on the wire when it has returned: the first
\* value and the version of the server setup, as far as they were written.
AcceptReply ==
    IF Len(awritten) >= 2
    THEN <<ControlTypeCode(awritten[1].msg), awritten[2].version>>
    ELSE IF Len(awritten) = 1 THEN <<ControlTypeCode(awritten[1].msg)>>
    ELSE <<>>

\* Mutant of ConnectFamily: the client goes on with the family the stream
\* was opened with.
ConnectFamilyOpened(version) == "ietf"

\* The family connect starts for the server's version: lite::Version::try_from
\* first, then ietf::Version::try_from.
ConnectFamily(version) ==
    IF LiteTryFrom(version) THEN "lite"
    ELSE IF IetfTryFrom(version) THEN "ietf"
    ELSE "none"

\* Session::connect from its first read on: the first value of the reply
\* must be ServerCompatV14, then the server setup is decoded and the session
\* of the server's version is started. A read fails when the peer has gone
\* before writing it; the start may fail as well.
ConnectReply(started) ==
    /\ hs.pc = "wait"
    /\ IF hs.peer = "accept" THEN apc = "done" ELSE hs.reply # <<>>
    /\ LET reply == IF hs.peer = "accept" THEN AcceptReply ELSE hs.reply
           kind == IF reply = <<>> THEN "none" ELSE ControlTypeDecode(reply[1])
           version == IF Len(reply) >= 2 THEN reply[2] ELSE "none"
           family == ConnectFamily(version)
           res == IF reply = <<>> THEN "Transport"
                  ELSE IF kind = "InvalidMessage" THEN "Decode"
                  ELSE IF kind # "ServerCompatV14" THEN "UnexpectedStream"
                  ELSE IF Len(reply) < 2 THEN "Transport"
                  ELSE IF family = "none" THEN "Version"
                  ELSE IF started THEN "Ok" ELSE "Transport"
       IN hs' = [hs EXCEPT !.pc = "done",
                           !.first = IF reply = <<>> THEN -1 ELSE reply[1],
                           !.result = res,
                           !.started = IF res \in {"Ok", "Transport"} /\ Len(reply) >= 2
                                          /\ kind = "ServerCompatV14" /\ family # "none"
                                       THEN [family |-> family, version |-> version]
                                       ELSE @]
    /\ UNCHANGED <<ru, wire, ctl, exceptProto>>

ConnectNext ==
    \/ \E code \in FirstValues, versions \in ForeignLists : ForeignClient(code, versions)
    \/ \E own, ok \in BOOLEAN : Connect(own, ok)
    \/ \E code \in FirstValues, version \in VersionIds : ForeignReply(code, version)
    \/ ServerAccept
    \/ \E started \in BOOLEAN : ConnectReply(started)

SpecConnect == RequestInit /\ [][ConnectNext]_vars

\* C31: the first value on the control stream alone decides the handshake:
\* accept goes to accept_ietf for ClientCompatV14 (0x20), to accept_lite for
\* Session (0) and ClientCompatV7 (0x40), and for every other ControlType it
\* fails with UnexpectedStream, with nothing written and nothing started;
\* connect fails with UnexpectedStream for every ControlType in the reply
\* but ServerCompatV14 (0x21), and for no other reason.
FirstValueDecides ==
    /\ apc = "accept_ietf" => ControlTypeCode(akind) = 32
    /\ apc = "accept_lite" => ControlTypeCode(akind) \in {0, 64}
    /\ (hs.client # "none" /\ apc = "done") =>
          /\ (ControlTypeCode(akind) \notin {0, 32, 64}) =>
                (aresult = "UnexpectedStream" /\ awritten = <<>> /\ astarted = NoSession)
          /\ aresult = "UnexpectedStream" => ControlTypeCode(akind) \notin {0, 32, 64}
    /\ (hs.pc = "done" /\ hs.first # -1) =>
          /\ (hs.first \in {0, 1, 2, 32, 64, 65}) =>
                (hs.result = "UnexpectedStream" /\ hs.started = NoSession)
          /\ hs.result = "UnexpectedStream" => hs.first # 33

\* C31 witness: accept has refused a stream that began with Announce, and
\* connect has refused a reply that began with ServerCompatV7.
BothRefused ==
    /\ hs.client = "foreign" /\ akind = "Announce"
    /\ apc = "done" /\ aresult = "UnexpectedStream"
    /\ hs.pc = "done" /\ hs.first = 65 /\ hs.result = "UnexpectedStream"

\* C35: when connect and accept have both returned Ok over one control
\* stream, the two sides have started the same family with the same
\* version, which is the one version of the one server setup accept wrote
\* and is a version connect offered.
SameVersionBothSides ==
    (hs.peer = "accept" /\ hs.result = "Ok" /\ aresult = "Ok") =>
        /\ hs.started = astarted
        /\ astarted # NoSession
        /\ \A i \in ServerSetups : awritten[i].version = astarted.version
        /\ Cardinality(ServerSetups) = 1
        /\ \E k \in DOMAIN hs.offered : hs.offered[k] = astarted.version

\* C35 witness: connect and accept have both returned Ok over one stream.
BothConnected ==
    /\ hs.peer = "accept" /\ hs.result = "Ok" /\ aresult = "Ok"
    /\ hs.started = [family |-> "lite", version |-> "lite-02"]


----------------------------------------------------------------------------
\* The size-prefixed messages of the lite protocol. A buffer is a sequence
\* of fields, one element for each value written; names are numbers.

\* Bounds of the message model: the largest id and the surplus a peer may
\* declare.
MaxMessageId == 1
MaxSurplus == 2

\* Durations of Subscribe.expires, in microseconds.
Durations == {0, 500, 1000, 1500}

\* The messages that are encoded: Subscribe and SubscribeOk.
Messages ==
    [kind : {"Subscribe"}, id : 0..MaxMessageId, broadcast : {10, 11}, track : {20, 21},
     priority : {0, 1}, expires : Durations]
      \cup {[NoMessage EXCEPT !.kind = "SubscribeOk"]}

\* Message::encode of Subscribe and of SubscribeOk: the fields in order,
\* expires as whole milliseconds (Duration::as_millis).
SubscribeEncode(m) ==
    IF m.kind = "SubscribeOk" THEN <<>>
    ELSE <<m.id, m.broadcast, m.track, m.priority, m.expires \div 1000>>

\* Message::decode of Subscribe and of SubscribeOk on the limited buffer:
\* the value and what is left of the buffer, or Short when a field is
\* missing. expires is Duration::from_millis of the field.
SubscribeDecode(kind, buf) ==
    IF kind = "SubscribeOk"
    THEN [res |-> "Ok", value |-> [NoMessage EXCEPT !.kind = kind], rest |-> buf]
    ELSE IF Len(buf) < 5
    THEN [res |-> "Short", value |-> NoMessage, rest |-> <<>>]
    ELSE [res |-> "Ok",
          value |-> [kind |-> kind, id |-> buf[1], broadcast |-> buf[2], track |-> buf[3],
                     priority |-> buf[4], expires |-> buf[5] * 1000],
          rest |-> SubSeq(buf, 6, Len(buf))]

\* impl Encode for T: Message: the size the Sizer counted, then the message.
MessageEncode(m) == <<Len(SubscribeEncode(m))>> \o SubscribeEncode(m)

\* impl Decode for T: Message: the size, the message decoded from a buffer
\* limited to it, and DecodeError::Long when the limited buffer is not used up.
MessageDecode(kind, buf) ==
    IF buf = <<>> THEN [res |-> "Short", value |-> NoMessage, rest |-> <<>>]
    ELSE LET size == buf[1]
             avail == IF size < Len(buf) - 1 THEN size ELSE Len(buf) - 1
             inner == SubscribeDecode(kind, SubSeq(buf, 2, 1 + avail))
         IN IF inner.res # "Ok" THEN inner
            ELSE IF inner.rest # <<>> THEN [res |-> "Long", value |-> NoMessage, rest |-> <<>>]
            ELSE [res |-> "Ok", value |-> inner.value,
                  rest |-> SubSeq(buf, 2 + avail, Len(buf))]

\* A sender encodes message m.
WireEncode(m) ==
    /\ wire.op = "none"
    /\ wire' = [WireNew EXCEPT !.op = "encode", !.msg = m, !.bytes = MessageEncode(m),
                               !.declared = Len(SubscribeEncode(m))]
    /\ UNCHANGED <<ru, hs, ctl, exceptProto>>

\* A peer sends the message with a larger declared length and as many
\* surplus fields behind it.
WirePad(k) ==
    /\ wire.op = "encode"
    /\ wire' = [wire EXCEPT !.op = "padded",
                            !.declared = @ + k,
                            !.bytes = <<wire.declared + k>> \o Tail(wire.bytes)
                                         \o [i \in 1..k |-> 0]]
    /\ UNCHANGED <<ru, hs, ctl, exceptProto>>

\* The receiver decodes what is on the wire.
WireDecode ==
    /\ wire.op \in {"encode", "padded"}
    /\ LET d == MessageDecode(wire.msg.kind, wire.bytes)
       IN wire' = [wire EXCEPT !.op = IF wire.op = "encode" THEN "decoded" ELSE "refused",
                               !.res = d.res, !.value = d.value, !.rest = d.rest]
    /\ UNCHANGED <<ru, hs, ctl, exceptProto>>

\* The variants of Error but App, with their codes.
ProtocolErrors ==
    {<<"Cancel", 0>>, <<"RequiredExtension", 1>>, <<"Old", 2>>, <<"Timeout", 3>>,
     <<"Transport", 4>>, <<"Decode", 5>>, <<"Unauthorized", 6>>, <<"Version", 9>>,
     <<"UnexpectedStream", 10>>, <<"BoundsExceeded", 11>>, <<"Duplicate", 12>>,
     <<"NotFound", 13>>, <<"WrongSize", 14>>, <<"ProtocolViolation", 15>>,
     <<"UnexpectedMessage", 16>>, <<"Unsupported", 17>>, <<"TooLarge", 18>>,
     <<"TooManyParameters", 19>>}

ProtocolCodes == {e[2] : e \in ProtocolErrors}

\* A u32 is written <<hi, lo>>, its two 16-bit halves: hi * Half + lo.
Half == 65536

\* The application codes tried: the smallest ones, the ones around
\* u32::MAX - 64, and u32::MAX.
AppSpan == 3
AppCodes ==
    {<<0, lo>> : lo \in 0..AppSpan}
      \cup {<<Half - 1, lo>> : lo \in (Half - 64 - AppSpan)..(Half - 64 + AppSpan)}
      \cup {<<Half - 1, Half - 1>>}

\* Error::to_code. `*app + 64` is a u32 addition: past u32::MAX it panics
\* in a build with overflow checks (<<-1, -1>> here) and wraps in one
\* without.
ErrorToCode(err, app, checks) ==
    IF err # "App" THEN <<0, (CHOOSE e \in ProtocolErrors : e[1] = err)[2]>>
    ELSE LET lo == (app[2] + 64) % Half
             hi == app[1] + ((app[2] + 64) \div Half)
         IN IF hi < Half THEN <<hi, lo>>
            ELSE IF checks THEN <<-1, -1>>
            ELSE <<hi % Half, lo>>

\* Writer::abort(err): the stream is reset with err.to_code().
WireAbort(err, app, checks) ==
    /\ wire.op = "none"
    /\ wire' = [WireNew EXCEPT !.op = "reset", !.err = err, !.app = app,
                               !.code = ErrorToCode(err, app, checks)]
    /\ UNCHANGED <<ru, hs, ctl, exceptProto>>

WireNext ==
    \/ \E m \in Messages : WireEncode(m)
    \/ \E k \in 1..MaxSurplus : WirePad(k)
    \/ WireDecode
    \/ \E e \in ProtocolErrors, checks \in BOOLEAN : WireAbort(e[1], <<0, 0>>, checks)
    \/ \E app \in AppCodes, checks \in BOOLEAN : WireAbort("App", app, checks)

SpecWire == RequestInit /\ [][WireNext]_vars

\* C33: decoding the encoding of a message gives back the message and uses
\* up exactly the bytes of the encoding; a message whose declared length is
\* larger than what its decoder uses is refused with DecodeError::Long.
MessageRoundTrip ==
    /\ wire.op = "decoded" =>
          (wire.res = "Ok" /\ wire.value = wire.msg /\ wire.rest = <<>>)
    /\ wire.op = "refused" => wire.res = "Long"


\* C34: every variant of Error but App has a code below 64, and App(n) has
\* the code n + 64 for every u32 n, which is at least 64 and is the code of
\* no other variant.
AppCodesApart ==
    wire.op = "reset" =>
        IF wire.err = "App"
        THEN /\ wire.code[2] = (wire.app[2] + 64) % Half
             /\ wire.code[1] = wire.app[1] + ((wire.app[2] + 64) \div Half)
             /\ wire.code[1] > 0 \/ wire.code[2] >= 64
             /\ ~(wire.code[1] = 0 /\ wire.code[2] \in ProtocolCodes)
        ELSE wire.code[1] = 0 /\ wire.code[2] \in 0..63

----------------------------------------------------------------------------
\* ietf::Control: the request ids and their limit.

\* Control::new(tx, request_id_max, client): a client counts from 0, a server
\* from 1.
ControlCreate(max, client) ==
    /\ ctl.pc = "new"
    /\ ctl' = [ctl EXCEPT !.pc = "run",
                          !.request_id_next = IF client THEN 0 ELSE 1,
                          !.request_id_max = max]
    /\ UNCHANGED <<ru, hs, wire, exceptProto>>

\* A task calls next_request_id.
NextRequestIdCall(c) ==
    /\ ctl.pc = "run"
    /\ ctl.callers[c].pc = "idle"
    /\ ctl' = [ctl EXCEPT !.callers[c] = [pc |-> "lock", woken |-> FALSE, blocked |-> FALSE]]
    /\ UNCHANGED <<ru, hs, wire, exceptProto>>

\* next_request_id, the block that holds the lock: below the limit the id
\* is returned and the counter goes up by two (RequestId::increment); at
\* the limit the Notified future is created before the lock is released.
NextRequestIdLocked(c) ==
    /\ ctl.callers[c].pc = "lock"
    /\ IF ctl.request_id_next < ctl.request_id_max
       THEN ctl' = [ctl EXCEPT !.request_id_next = @ + 2,
                               !.callers[c].pc = "idle",
                               !.last = [c |-> c, res |-> "Ok", id |-> ctl.request_id_next,
                                         max |-> ctl.request_id_max,
                                         blocked |-> ctl.callers[c].blocked]]
       ELSE ctl' = [ctl EXCEPT !.callers[c] = [pc |-> "wait", woken |-> FALSE, blocked |-> TRUE]]
    /\ UNCHANGED <<ru, hs, wire, exceptProto>>

\* Mutant of NotifyWaiters: nobody is woken.
NotifyWaitersNone(callers) == callers

\* Notify::notify_waiters: every Notified future that exists is woken.
NotifyWaiters(callers) ==
    [c \in DOMAIN callers |->
        IF callers[c].pc = "wait" THEN [callers[c] EXCEPT !.woken = TRUE] ELSE callers[c]]

\* Control::max_request_id(max), under the lock.
MaxRequestId(max) ==
    /\ ctl.pc = "run"
    /\ ctl' = [ctl EXCEPT !.request_id_max = max, !.callers = NotifyWaiters(@)]
    /\ UNCHANGED <<ru, hs, wire, exceptProto>>

\* next_request_id, its select!: the notification makes the loop go round,
\* the closed channel makes the call return Error::Cancel.
NextRequestIdSelect(c) ==
    /\ ctl.callers[c].pc = "wait"
    /\ \/ /\ ctl.callers[c].woken
          /\ ctl' = [ctl EXCEPT !.callers[c].pc = "lock", !.callers[c].woken = FALSE]
       \/ /\ ctl.tx = "closed"
          /\ ctl' = [ctl EXCEPT !.callers[c] = [pc |-> "idle", woken |-> FALSE, blocked |-> FALSE],
                                !.last = [c |-> c, res |-> "Cancel", id |-> 0,
                                          max |-> ctl.request_id_max, blocked |-> TRUE]]
    /\ UNCHANGED <<ru, hs, wire, exceptProto>>

\* Control::run has returned and dropped the receiver.
ControlRunEnds ==
    /\ ctl.pc = "run"
    /\ ctl.tx = "open"
    /\ ctl' = [ctl EXCEPT !.tx = "closed"]
    /\ UNCHANGED <<ru, hs, wire, exceptProto>>

ControlNext ==
    \/ \E max \in 0..MaxRequestIdMax, client \in BOOLEAN : ControlCreate(max, client)
    \/ \E c \in 1..MaxCallers : NextRequestIdCall(c)
    \/ \E c \in 1..MaxCallers : NextRequestIdLocked(c)
    \/ \E max \in 0..MaxRequestIdMax : MaxRequestId(max)
    \/ \E c \in 1..MaxCallers : NextRequestIdSelect(c)
    \/ ControlRunEnds

SpecControl == RequestInit /\ [][ControlNext]_vars

\* C36: next_request_id returns only ids below the request_id_max in force
\* when it returns, and no wake-up is lost: a caller that waits without a
\* pending notification waits at the limit, so every raise of the limit
\* above the next id sends each waiting caller back to the check.
RequestIdFlowControl ==
    /\ [](ctl.last.res = "Ok" => ctl.last.id < ctl.last.max)
    /\ [](\A c \in 1..MaxCallers :
            (ctl.callers[c].pc = "wait" /\ ~ctl.callers[c].woken)
               => ctl.request_id_next >= ctl.request_id_max)
    /\ [][\A c \in 1..MaxCallers :
            (ctl.callers[c].pc = "wait" /\ ctl'.request_id_max > ctl.request_id_max
               /\ ctl'.request_id_max > ctl.request_id_next)
               => (ctl'.callers[c].pc = "wait" /\ ctl'.callers[c].woken)]_vars

\* C36 witness: a caller that was blocked at the limit has obtained an id
\* after the limit was raised.
BlockedCallerServed ==
    /\ ctl.last.res = "Ok"
    /\ ctl.last.blocked
    /\ ctl.last.id + 2 = ctl.request_id_next

=============================================================================
